---- MODULE Spec2Model ----
(***************************************************************************)
(* State-machine model of the GATF agent validation framework.             *)
(*                                                                         *)
(* Part I  : ValidationOrchestrator task scheduler                         *)
(*           (gatf/validation/orchestrators/validation_orchestrator.py).   *)
(* Part II : VOSOrchestrator plan execution                                *)
(*           (gatf_vos/core/vos_orchestrator.py).                          *)
(* Part III: VOSOrchestrator event bus                                     *)
(*           (gatf_vos/core/vos_orchestrator.py).                          *)
(* Part IV : the VOS primitives (gatf_vos/vos_primitives.py).              *)
(* Part V  : MemoryCache (gatf/utils/caching.py).                          *)
(* Part VI : ValidationOrchestrator.validate and its result cache.         *)
(* Part VII: RateLimiter with a token bucket (gatf/utils/rate_limiting.py). *)
(* Part VIII: RedisRateLimiter (gatf/utils/rate_limiting.py).              *)
(* Part IX : the rate_limit decorator (gatf/utils/rate_limiting.py).       *)
(* Part X  : TrustFramework._assign_badges (gatf/core/trust_framework.py). *)
(* Part XI : TrustFramework.validate_agent (gatf/core/trust_framework.py).  *)
(* Part XII: generate_and_wait (synthetic_data/connectors/base_connector.py)*)
(* Part XIII: batch_generate (synthetic_data/connectors/base_connector.py). *)
(* Part XIV : DomainRegistry (gatf/domains/__init__.py).                    *)
(* Part XV  : the hybrid CacheManager (gatf/utils/caching.py).              *)
(*                                                                         *)
(* Each part has its own specification; the variables of the other parts   *)
(* stay at their idle values.                                              *)
(***************************************************************************)
EXTENDS Integers, Sequences, FiniteSets, TLC

\* ------------------------------------------------------------------------
\* Bounds of the model (not program constants)
\* ------------------------------------------------------------------------
MaxWorkers == 2
MaxGraphTasks == 3
MaxPrims == 3
MaxPolicyRetries == 1
MaxExecutions == 2
MaxLoops == 2
MaxCallers == 2
MaxEvents == 2
MaxHandlers == 2
MaxMembers == 3
MaxCacheSize == 2
MaxAccessCount == 2
MaxCalls == 3
MaxPipelineTasks == 1
MaxLimiterCalls == 7
MaxNow == 11
MaxProcesses == 2
MaxLimit == 2
MaxRedisCalls == 4
MaxTicks == 3
MaxThreads == 2
MaxWrapperCalls == 4
MaxDomains == 5
MaxValidations == 2
MaxValidationDomains == 2
MaxSessionTime == 2
MaxPollInterval == 2
MaxWaitTime == 3
MaxRequestsInBatch == 3
MaxConcurrent == 2
MaxRegistryCalls == 4
MaxMemoryEntries == 1
MaxHybridSets == 2
MaxTtl == 2
MaxHybridNow == 4

\* ------------------------------------------------------------------------
\* Program constants
\* ------------------------------------------------------------------------
\* ValidationOrchestrator.cache_ttl default (seconds)
CacheTtl == 3600

\* RateLimitConfig.max_requests and time_window (in milliseconds) of the
\* limiter
MaxRequests == 5
TimeWindow == 1000

\* the step of the clock, in milliseconds
StepMs == 20

\* RateLimitConfig.time_window of the shared-store limiter, in ticks
WindowTicks == 2

\* ValidationTask.max_retries default
DefaultTaskMaxRetries == 3

\* ========================================================================
\* Part I : ValidationOrchestrator
\* ========================================================================

VARIABLES
    ctx_tasks,          \* context.tasks : task id (insertion index) -> ValidationTask
    parallel_stages,    \* pipeline.parallel_stages
    max_workers,        \* ThreadPoolExecutor(max_workers)
    completed_tasks,    \* local completed_tasks of _execute_tasks
    ready_tasks,        \* local ready_tasks of the current wave
    ri,                 \* position of the "for task in ready_tasks" loop
    futures_to_tasks,   \* local futures_to_tasks (keys, as task ids)
    fut,                \* state of the future of each task in the pool
    work_queue,         \* FIFO work queue of the ThreadPoolExecutor
    vo_pc,              \* position of the thread running _execute_tasks
    clock               \* datetime.utcnow(), as a logical clock that ticks
                        \* whenever a task's end_time is read from it

vo_vars == <<ctx_tasks, parallel_stages, max_workers, completed_tasks,
             ready_tasks, ri, futures_to_tasks, fut, work_queue, vo_pc, clock>>

\* state of Part II, declared here because the actions of Part I leave it
\* unchanged
VARIABLES
    plan,               \* the OrchestrationPlan handed to execute_plan
    active_plans,       \* _active_plans (plan ids)
    execution_history,  \* _execution_history
    event_queue,        \* _event_queue
    executions,         \* number of execute_plan calls made so far
    vos_pc,             \* position of the coroutine running execute_plan
    result,             \* the OrchestrationResult of the running call
    executed,           \* local "executed" of _execute_adaptive
    pending,            \* local "pending" of _execute_adaptive
    aio_tasks,              \* asyncio tasks created by the running strategy
    ai,                 \* position of the loop over plan.primitives / tasks
    retry_i,            \* loop variable i of the retry loop
    started,            \* per primitive: calls of execute entered (instrumentation)
    outcomes            \* per primitive: how each call of execute ended (instrumentation)

vos_vars == <<plan, active_plans, execution_history, event_queue, executions,
              vos_pc, result, executed, pending, aio_tasks, ai, retry_i,
              started, outcomes>>

\* state of Part III (the event bus of the VOS orchestrator)
VARIABLES
    initialized,        \* _initialized
    running,            \* _running
    components,         \* the runtime components are constructed (not None)
    ev_queue,           \* _event_queue, as read by _process_events
    handlers,           \* _event_handlers : event type -> list of handlers
    loops,              \* the unfinished asyncio tasks running _process_events
    callers,            \* the numbers of initialize and of shutdown calls
                        \* suspended in asyncio.gather
    emitted             \* number of events put on the queue so far

ev_vars == <<initialized, running, components, ev_queue, handlers, loops,
             callers, emitted>>

\* state of Part IV (the primitives)
VARIABLES
    members,            \* ComposedPrimitive.primitives, with what the narrowed
                        \* operation and the callbacks of each member do
    pr_i,               \* position of the loop over self.primitives
    pr_results,         \* local "results" of ComposedPrimitive.execute
    pr_errors,          \* local "all_errors" of ComposedPrimitive.execute
    pr_pc,              \* position of ComposedPrimitive.execute
    pr_out              \* the PrimitiveResult it returned

pr_vars == <<members, pr_i, pr_results, pr_errors, pr_pc, pr_out>>

\* state of Part V (the memory cache)
VARIABLES
    mc_cache,           \* _cache : the OrderedDict, as the list of its entries
    mc_policy,          \* eviction_policy
    mc_max_size,        \* max_size
    mc_lock,            \* _lock : the thread holding it, 0 when free
    mc_pending,         \* per thread, the set call it is inside of
    mc_recency,         \* the keys by last read or write, least recent first
                        \* (instrumentation)
    mc_inserted,        \* the keys by insertion, oldest first
                        \* (instrumentation)
    mc_last_evict,      \* what the last eviction removed (instrumentation)
    mc_scn              \* how much of Scenario has been run (instrumentation)

mc_vars == <<mc_cache, mc_policy, mc_max_size, mc_lock, mc_pending,
             mc_recency, mc_inserted, mc_last_evict, mc_scn>>

\* state of Part VI (validate and the result cache)
VARIABLES
    vl_cache_enabled,   \* ValidationOrchestrator.cache_enabled; cache_manager
                        \* exists exactly when it is true (line 174)
    vl_max_size,        \* max_size of the memory cache of cache_manager
    vl_cache,           \* the _cache of that memory cache
    vl_ctx,             \* per validate call made, the cache key and how the
                        \* call went (instrumentation)
    vl_call,            \* the locals of the validate call under way
    vl_pc,              \* position of the validate call under way
    vl_tasks,           \* tasks the call under way has executed
    vl_out              \* what the last finished call returned or raised

vl_vars == <<vl_cache_enabled, vl_max_size, vl_cache, vl_ctx, vl_call, vl_pc,
             vl_tasks, vl_out>>

\* state of Part VII (the rate limiter)
VARIABLES
    rl_strict,          \* RateLimitConfig.strict
    rl_tokens,          \* TokenBucket.tokens
    rl_last_refill,     \* TokenBucket.last_refill
    rl_now,             \* time.time()
    rl_log,             \* the check_and_consume calls made: when, what the
                        \* caller got, retry_after (instrumentation)
    rl_pc               \* "on" once the limiter is constructed

rl_vars == <<rl_strict, rl_tokens, rl_last_refill, rl_now, rl_log, rl_pc>>

\* state of Part VIII (the shared-store rate limiter): the configuration
\* (algorithm, max_requests), the clock (now), the store (zset: the sorted
\* set of the sliding window; counters: the counter of each fixed window),
\* the position and the locals of each process (procs), and as
\* instrumentation the number of calls made (calls) and, per request time,
\* the number of calls admitted (admitted)
VARIABLE rrl

rrl_vars == <<rrl>>

\* state of Part IX (the rate_limit decorator): the closure's limiters
\* dictionary (limiters: per key the limiter stored, 0 for none), the
\* position of each thread inside wrapper (threads), and as instrumentation
\* the number of calls (calls), of limiters created (n_created, and created
\* per key) and the limiters consumed from per key (consumed)
VARIABLE deco

deco_vars == <<deco>>

\* state of Part X (badge assignment): the arguments of _assign_badges (in)
\* and the badge types of the list it returned (badges, "None" before)
VARIABLE badge

badge_vars == <<badge>>

\* state of Part XI (validate_agent): the session registered under the id
\* (session), the position of the call (pc), its locals (validation_domains,
\* domain, all_results), what it raised (error), the number of calls so far
\* (calls) and the clock (now)
VARIABLE tf

tf_vars == <<tf>>

\* state of Part XII (generate_and_wait): the arguments (poll_interval,
\* max_wait), the response (status, job_id), the position of the call (pc),
\* how it ended (outcome), whether cancel_job was called (cancelled), the
\* clock (now, start_time), the number of polls and the time of the last one
\* since start_time (polls, last_poll)
VARIABLE gen

gen_vars == <<gen>>

\* state of Part XIII (batch_generate): the number of requests (n),
\* max_concurrent, the semaphore counter, the position of each coroutine
\* (pc), whether its generate_and_wait raised, what it returned (result),
\* the largest number of calls in progress so far (peak), and the list
\* gather returned (returned, responses)
VARIABLE batch

batch_vars == <<batch>>

\* state of Part XIV (DomainRegistry): _domains (the class registered for
\* each type), _domain_instances (the class of the cached instance of each
\* type), the type last asked of get and the class of the instance it
\* returned (asked, returned), what the last call raised, and the number of
\* calls
VARIABLE reg

reg_vars == <<reg>>

\* state of Part XV (hybrid CacheManager): the entries of the memory cache
\* and of redis, the clock (now), the set calls made so far (sets, n_sets;
\* the value of the i-th set is i) and the value the last get returned, if
\* it was the last call (got, 0 for None)
VARIABLE hyb

hyb_vars == <<hyb>>

\* the state outside Parts I and II
rest_vars == <<ev_vars, pr_vars, mc_vars, vl_vars, rl_vars, rrl_vars, deco_vars, badge_vars, tf_vars, gen_vars, batch_vars, reg_vars, hyb_vars>>

\* the state outside Part III
not_ev_vars == <<vo_vars, vos_vars, pr_vars, mc_vars, vl_vars, rl_vars, rrl_vars, deco_vars, badge_vars, tf_vars, gen_vars, batch_vars, reg_vars, hyb_vars>>

\* the state outside Part IV
not_pr_vars == <<vo_vars, vos_vars, ev_vars, mc_vars, vl_vars, rl_vars, rrl_vars, deco_vars, badge_vars, tf_vars, gen_vars, batch_vars, reg_vars, hyb_vars>>

\* the state outside Part V
not_mc_vars == <<vo_vars, vos_vars, ev_vars, pr_vars, vl_vars, rl_vars, rrl_vars, deco_vars, badge_vars, tf_vars, gen_vars, batch_vars, reg_vars, hyb_vars>>

\* the state outside Part VI
not_vl_vars == <<vo_vars, vos_vars, ev_vars, pr_vars, mc_vars, rl_vars, rrl_vars, deco_vars, badge_vars, tf_vars, gen_vars, batch_vars, reg_vars, hyb_vars>>

\* the state outside Part VII
not_rl_vars == <<vo_vars, vos_vars, ev_vars, pr_vars, mc_vars, vl_vars, rrl_vars, deco_vars, badge_vars, tf_vars, gen_vars, batch_vars, reg_vars, hyb_vars>>

\* the state outside Part VIII
not_rrl_vars == <<vo_vars, vos_vars, ev_vars, pr_vars, mc_vars, vl_vars, rl_vars, deco_vars, badge_vars, tf_vars, gen_vars, batch_vars, reg_vars, hyb_vars>>

\* the state outside Part IX
not_deco_vars == <<vo_vars, vos_vars, ev_vars, pr_vars, mc_vars, vl_vars, rl_vars, rrl_vars, badge_vars, tf_vars, gen_vars, batch_vars, reg_vars, hyb_vars>>

\* the state outside Part X
not_badge_vars == <<vo_vars, vos_vars, ev_vars, pr_vars, mc_vars, vl_vars, rl_vars, rrl_vars, deco_vars, tf_vars, gen_vars, batch_vars, reg_vars, hyb_vars>>

\* the state outside Part XI
not_tf_vars == <<vo_vars, vos_vars, ev_vars, pr_vars, mc_vars, vl_vars, rl_vars, rrl_vars, deco_vars, badge_vars, gen_vars, batch_vars, reg_vars, hyb_vars>>

\* the state outside Part XII
not_gen_vars == <<vo_vars, vos_vars, ev_vars, pr_vars, mc_vars, vl_vars, rl_vars, rrl_vars, deco_vars, badge_vars, tf_vars, batch_vars, reg_vars, hyb_vars>>

\* the state outside Part XIII
not_batch_vars == <<vo_vars, vos_vars, ev_vars, pr_vars, mc_vars, vl_vars, rl_vars, rrl_vars, deco_vars, badge_vars, tf_vars, gen_vars, reg_vars, hyb_vars>>

\* the state outside Part XIV
not_reg_vars == <<vo_vars, vos_vars, ev_vars, pr_vars, mc_vars, vl_vars, rl_vars, rrl_vars, deco_vars, badge_vars, tf_vars, gen_vars, batch_vars, hyb_vars>>

\* the state outside Part XV
not_hyb_vars == <<vo_vars, vos_vars, ev_vars, pr_vars, mc_vars, vl_vars, rl_vars, rrl_vars, deco_vars, badge_vars, tf_vars, gen_vars, batch_vars, reg_vars>>

\* ValidationStage, in declaration order
ValidationStage ==
    <<"initialization", "pre_validation", "domain_validation",
      "quality_validation", "metric_calculation", "post_validation",
      "aggregation", "finalization">>

\* A freshly constructed ValidationTask.  "runs" counts the invocations of
\* _execute_task on the task (instrumentation, not a field of the code).
ValidationTask(name, stage, dependencies, has_func, max_retries) ==
    [name |-> name, stage |-> stage, dependencies |-> dependencies,
     has_func |-> has_func, status |-> "pending",
     retry_count |-> 0, max_retries |-> max_retries,
     start_time |-> 0, end_time |-> 0, runs |-> 0]

\* ids of the tasks created so far whose stage is in the given set
TasksOfStages(tasks, stages) ==
    {i \in 1..Len(tasks) : tasks[i].stage \in stages}

\* _create_stage_tasks: the tasks one stage contributes, given the tasks
\* already in the context and whether context.domain_type is set.
CreateStageTasks(stage, tasks, has_domain) ==
    CASE stage = "initialization" ->
            <<ValidationTask("initialize_validation", stage, {}, TRUE,
                             DefaultTaskMaxRetries)>>
      [] stage = "pre_validation" ->
            <<ValidationTask("pre_validation_checks", stage, {}, TRUE,
                             DefaultTaskMaxRetries)>>
      [] stage = "domain_validation" ->
            IF has_domain
            THEN <<ValidationTask("domain_validation", stage, {}, TRUE,
                                  DefaultTaskMaxRetries)>>
            ELSE <<>>
      [] stage = "quality_validation" ->
            <<ValidationTask("quality_validation", stage, {}, TRUE,
                             DefaultTaskMaxRetries)>>
      [] stage = "metric_calculation" ->
            <<ValidationTask("calculate_metrics", stage,
                 TasksOfStages(tasks, {"domain_validation", "quality_validation"}),
                 TRUE, DefaultTaskMaxRetries)>>
      [] stage = "post_validation" ->
            <<ValidationTask("post_validation_processing", stage,
                 TasksOfStages(tasks, {"metric_calculation"}),
                 TRUE, DefaultTaskMaxRetries)>>
      [] stage = "aggregation" ->
            <<ValidationTask("aggregate_results", stage,
                 TasksOfStages(tasks, {"post_validation"}),
                 TRUE, DefaultTaskMaxRetries)>>
      [] stage = "finalization" ->
            <<ValidationTask("finalize_validation", stage,
                 TasksOfStages(tasks, {"aggregation"}),
                 TRUE, DefaultTaskMaxRetries)>>
      [] OTHER -> <<>>

\* _execute_pipeline, task creation loop: stages in pipeline order, a stage
\* whose skip condition holds contributes nothing.
RECURSIVE CreatePipelineTasks(_, _, _, _, _)
CreatePipelineTasks(stages, skipped, has_domain, i, tasks) ==
    IF i > Len(stages) THEN tasks
    ELSE IF stages[i] \in skipped
         THEN CreatePipelineTasks(stages, skipped, has_domain, i + 1, tasks)
         ELSE CreatePipelineTasks(stages, skipped, has_domain, i + 1,
                  tasks \o CreateStageTasks(stages[i], tasks, has_domain))

\* _create_default_pipeline: parallel_stages of the default pipeline
DefaultParallelStages == {"domain_validation", "quality_validation"}

\* Pipelines the orchestrator is run with (register_pipeline), with the
\* stages whose skip condition holds: the default stage list with the default
\* parallel stages and its last three stages skipped, the whole default
\* stage list run without parallel stages, and custom stage lists.
Pipelines ==
    { [stages |-> ValidationStage, parallel_stages |-> DefaultParallelStages,
       skipped |-> {"post_validation", "aggregation", "finalization"}],
      [stages |-> ValidationStage, parallel_stages |-> {},
       skipped |-> {}],
      [stages |-> ValidationStage,
       parallel_stages |-> {"pre_validation", "domain_validation",
                            "quality_validation"},
       skipped |-> {"initialization", "aggregation", "finalization"}],
      [stages |-> <<"domain_validation", "quality_validation",
                    "initialization", "metric_calculation", "post_validation">>,
       parallel_stages |-> DefaultParallelStages,
       skipped |-> {}],
      [stages |-> <<"quality_validation", "metric_calculation",
                    "domain_validation">>,
       parallel_stages |-> DefaultParallelStages,
       skipped |-> {}] }

\* Task graphs put into a context directly (tasks built by hand rather than
\* by _create_stage_tasks), over at most MaxGraphTasks tasks: every
\* dependency map in which a task depends on nothing, on itself, on the next
\* task or on the previous task (cyclically), and the maps in which the
\* later tasks each depend on the first two.
GraphDeps(n) ==
    {d \in [1..n -> SUBSET (1..n)] :
        \A t \in 1..n :
            d[t] \in {{}, {t}, {(t % n) + 1}, {((t + n - 2) % n) + 1}}}
       \cup {d \in [1..n -> SUBSET (1..n)] :
                /\ n >= 3
                /\ d[1] = {} /\ d[2] = {}
                /\ \A t \in 3..n : d[t] = {1, 2}}

GraphTasks(n, deps, stage, has_func, max_retries) ==
    [t \in 1..n |->
        ValidationTask("task", stage, deps[t], has_func, max_retries)]

\* ---- dependency cycles ---------------------------------------------------

\* ids reachable from t along dependency edges, in at most k steps
RECURSIVE DepClosure(_, _, _)
DepClosure(tasks, S, k) ==
    IF k = 0 THEN S
    ELSE DepClosure(tasks,
            S \cup UNION {tasks[s].dependencies \cap DOMAIN tasks : s \in S},
            k - 1)

HasCycle(tasks) ==
    \E t \in DOMAIN tasks :
        t \in DepClosure(tasks, tasks[t].dependencies \cap DOMAIN tasks,
                         Len(tasks))

\* ---- _execute_task -------------------------------------------------------

\* _execute_task, line 458: task.start_time = datetime.utcnow()
TaskStarted(task, now) ==
    [task EXCEPT !.start_time = now, !.runs = @ + 1]

\* _execute_task, lines 460-491: the validator call returned ("raised" is
\* FALSE) or raised, the elapsed-time SchedulingError included.
TaskFinished(task, raised, now) ==
    IF ~task.has_func
    THEN [task EXCEPT !.status = "skipped", !.end_time = now]
    ELSE IF ~raised
    THEN [task EXCEPT !.status = "completed", !.end_time = now]
    ELSE IF task.retry_count < task.max_retries
    THEN [task EXCEPT !.status = "pending", !.retry_count = @ + 1,
                      !.end_time = now]
    ELSE [task EXCEPT !.status = "failed", !.end_time = now]

\* ---- _execute_tasks ------------------------------------------------------

\* mutation of IsReady: the dependency test is dropped
IsReady_IgnoresDependencies(tasks, completed, t) ==
    /\ t \notin completed
    /\ tasks[t].status = "pending"

\* lines 416-418: the readiness test of one task
IsReady(tasks, completed, t) ==
    /\ t \notin completed
    /\ tasks[t].status = "pending"
    /\ tasks[t].dependencies \subseteq completed

\* lines 414-419: ready tasks, in dictionary (insertion) order
RECURSIVE ReadyFrom(_, _, _)
ReadyFrom(tasks, completed, t) ==
    IF t > Len(tasks) THEN <<>>
    ELSE (IF IsReady(tasks, completed, t) THEN <<t>> ELSE <<>>)
            \o ReadyFrom(tasks, completed, t + 1)

\* mutation of NoProgressPossible: the scheduler never gives up
NoProgressPossible_NeverRaises(ready, completed, tasks) ==
    FALSE

\* line 421: no ready task while tasks remain
NoProgressPossible(ready, completed, tasks) ==
    /\ ready = <<>>
    /\ Cardinality(completed) < Len(tasks)

\* line 428: the task goes to the worker pool
RunsInPool(task, ready, parallel) ==
    task.stage \in parallel \/ Len(ready) = 1

\* lines 412-423: loop test, the ready scan and the circular-dependency raise
FindReady ==
    /\ vo_pc = "loop"
    /\ IF Cardinality(completed_tasks) >= Len(ctx_tasks)
       THEN /\ vo_pc' = "returned"
            /\ UNCHANGED <<ready_tasks, ri>>
       ELSE LET ready == ReadyFrom(ctx_tasks, completed_tasks, 1) IN
            /\ ready_tasks' = ready
            /\ ri' = 1
            /\ vo_pc' = IF NoProgressPossible(ready, completed_tasks, ctx_tasks)
                        THEN "raised_DependencyError"
                        ELSE "submit"
    /\ UNCHANGED <<ctx_tasks, parallel_stages, max_workers, completed_tasks,
                   futures_to_tasks, fut, work_queue, clock>>
    /\ UNCHANGED <<vos_vars, rest_vars>>

\* lines 429-430: executor.submit and futures_to_tasks[future] = task
SubmitToPool ==
    /\ vo_pc = "submit"
    /\ ri <= Len(ready_tasks)
    /\ RunsInPool(ctx_tasks[ready_tasks[ri]], ready_tasks, parallel_stages)
    /\ work_queue' = Append(work_queue, ready_tasks[ri])
    /\ fut' = [fut EXCEPT ![ready_tasks[ri]] = "queued"]
    /\ futures_to_tasks' = futures_to_tasks \cup {ready_tasks[ri]}
    /\ vo_pc' = "mark"
    /\ UNCHANGED <<ctx_tasks, parallel_stages, max_workers, completed_tasks,
                   ready_tasks, ri, clock>>
    /\ UNCHANGED <<vos_vars, rest_vars>>

\* line 431: task.status = RUNNING, written by the submitting thread after
\* the worker may already have run the task
MarkRunning ==
    /\ vo_pc = "mark"
    /\ ctx_tasks' = [ctx_tasks EXCEPT ![ready_tasks[ri]].status = "running"]
    /\ ri' = ri + 1
    /\ vo_pc' = "submit"
    /\ UNCHANGED <<parallel_stages, max_workers, completed_tasks, ready_tasks,
                   futures_to_tasks, fut, work_queue, clock>>
    /\ UNCHANGED <<vos_vars, rest_vars>>

\* line 434, first half: _execute_task called on the scheduling thread
InlineStart ==
    /\ vo_pc = "submit"
    /\ ri <= Len(ready_tasks)
    /\ ~RunsInPool(ctx_tasks[ready_tasks[ri]], ready_tasks, parallel_stages)
    /\ ctx_tasks' = [ctx_tasks EXCEPT
                        ![ready_tasks[ri]] = TaskStarted(@, clock)]
    /\ vo_pc' = "inline"
    /\ UNCHANGED <<parallel_stages, max_workers, completed_tasks, ready_tasks,
                   ri, futures_to_tasks, fut, work_queue, clock>>
    /\ UNCHANGED <<vos_vars, rest_vars>>

\* lines 434-435, second half: the inline call returns, the task joins
\* completed_tasks
InlineFinish ==
    /\ vo_pc = "inline"
    /\ \E raised \in BOOLEAN :
         ctx_tasks' = [ctx_tasks EXCEPT
                          ![ready_tasks[ri]] = TaskFinished(@, raised, clock + 1)]
    /\ clock' = clock + 1
    /\ completed_tasks' = completed_tasks \cup {ready_tasks[ri]}
    /\ ri' = ri + 1
    /\ vo_pc' = "submit"
    /\ UNCHANGED <<parallel_stages, max_workers, ready_tasks,
                   futures_to_tasks, fut, work_queue>>
    /\ UNCHANGED <<vos_vars, rest_vars>>

\* line 438: end of the submit loop
EndSubmit ==
    /\ vo_pc = "submit"
    /\ ri > Len(ready_tasks)
    /\ vo_pc' = IF futures_to_tasks # {} THEN "wait" ELSE "loop"
    /\ UNCHANGED <<ctx_tasks, parallel_stages, max_workers, completed_tasks,
                   ready_tasks, ri, futures_to_tasks, fut, work_queue, clock>>
    /\ UNCHANGED <<vos_vars, rest_vars>>

\* lines 439-449: as_completed hands over one finished future; _execute_task
\* catches every Exception, so future.result() returns normally
CollectFuture ==
    /\ vo_pc = "wait"
    /\ \E t \in futures_to_tasks :
         /\ fut[t] = "done"
         /\ futures_to_tasks' = futures_to_tasks \ {t}
         /\ completed_tasks' = completed_tasks \cup {t}
         /\ vo_pc' = IF futures_to_tasks \ {t} = {} THEN "loop" ELSE "wait"
    /\ UNCHANGED <<ctx_tasks, parallel_stages, max_workers, ready_tasks, ri,
                   fut, work_queue, clock>>
    /\ UNCHANGED <<vos_vars, rest_vars>>

\* a pool worker takes the oldest queued work item and enters _execute_task
WorkerStart ==
    /\ work_queue # <<>>
    /\ Cardinality({t \in DOMAIN fut : fut[t] = "running"}) < max_workers
    /\ LET t == Head(work_queue) IN
         /\ work_queue' = Tail(work_queue)
         /\ fut' = [fut EXCEPT ![t] = "running"]
         /\ ctx_tasks' = [ctx_tasks EXCEPT ![t] = TaskStarted(@, clock)]
    /\ UNCHANGED <<parallel_stages, max_workers, completed_tasks, ready_tasks,
                   ri, futures_to_tasks, vo_pc, clock>>
    /\ UNCHANGED <<vos_vars, rest_vars>>

\* the worker leaves _execute_task and the future becomes done
WorkerFinish ==
    /\ \E t \in DOMAIN fut :
         /\ fut[t] = "running"
         /\ \E raised \in BOOLEAN :
              ctx_tasks' = [ctx_tasks EXCEPT
                               ![t] = TaskFinished(@, raised, clock + 1)]
         /\ fut' = [fut EXCEPT ![t] = "done"]
    /\ clock' = clock + 1
    /\ UNCHANGED <<parallel_stages, max_workers, completed_tasks, ready_tasks,
                   ri, futures_to_tasks, work_queue, vo_pc>>
    /\ UNCHANGED <<vos_vars, rest_vars>>

VONext ==
    \/ FindReady
    \/ SubmitToPool
    \/ MarkRunning
    \/ InlineStart
    \/ InlineFinish
    \/ EndSubmit
    \/ CollectFuture
    \/ WorkerStart
    \/ WorkerFinish

\* ========================================================================
\* Part II : VOSOrchestrator.execute_plan
\* ========================================================================

\* OrchestrationMode
OrchestrationMode == {"sequential", "parallel", "adaptive", "real_time"}

\* a dictionary key that is not present / an Optional that is None
Absent == 0 - 1

\* create_plan gives the plan a fresh id; one plan is followed
PlanId == 1

\* Primitive names of a plan of n primitives, in plan order.  Name n + 1 is
\* a name that no primitive of the plan bears.
PlanPrimitives(n) == [i \in 1..n |-> i]

\* plan.dependencies: name -> prerequisite names.  Every map in which a
\* primitive names no prerequisite, itself, the next or the previous
\* primitive of the plan (cyclically) or a name outside the plan, and the
\* maps in which the later primitives each depend on the first two.
DependencyMaps(n) ==
    {d \in [1..n -> SUBSET (1..(n + 1))] :
        \A p \in 1..n :
            d[p] \in {{}, {p}, {(p % n) + 1}, {((p + n - 2) % n) + 1},
                      {n + 1}}}
       \cup {d \in [1..n -> SUBSET (1..(n + 1))] :
                /\ n >= 3
                /\ d[1] = {} /\ d[2] = {}
                /\ \A p \in 3..n : d[p] = {1, 2}}

NoDependencies(n) == [p \in 1..n |-> {}]

\* plan.retry_policy: {} , {'enabled': True} , {'enabled': True,
\* 'max_retries': k}
RetryPolicies ==
    {[enabled |-> FALSE, max_retries |-> Absent],
     [enabled |-> TRUE, max_retries |-> Absent]}
       \cup {[enabled |-> TRUE, max_retries |-> k] : k \in 0..MaxPolicyRetries}

\* a PrimitiveResult: status, the timeout of the "Timeout after {timeout}ms"
\* error (Absent when the result is not a timeout result), and the call of
\* execute that produced it (instrumentation)
PrimitiveResult(status, timeout, attempt) ==
    [status |-> status, timeout |-> timeout, attempt |-> attempt]

NoResult == [status |-> "none", timeout |-> Absent, attempt |-> 0]

\* OrchestrationResult(plan_id, status=RUNNING)
OrchestrationResult(n) ==
    [plan_id |-> PlanId, status |-> "running",
     primitive_results |-> [p \in 1..n |-> NoResult],
     errors |-> <<>>, end_time |-> FALSE]

\* ---- the dependency map of a plan ----------------------------------------

RECURSIVE PlanDepClosure(_, _, _)
PlanDepClosure(deps, S, k) ==
    IF k = 0 THEN S
    ELSE PlanDepClosure(deps,
            S \cup UNION {deps[s] \cap DOMAIN deps : s \in S}, k - 1)

\* some primitive of the plan depends, directly or not, on itself
PlanHasCycle(deps) ==
    \E p \in DOMAIN deps :
        p \in PlanDepClosure(deps, deps[p] \cap DOMAIN deps,
                             Cardinality(DOMAIN deps))

\* ---- _execute_adaptive helpers -------------------------------------------

\* mutation of DepsExecuted: the declared dependencies are not consulted
DepsExecuted_Ignored(deps, done) ==
    TRUE

\* line 279: all(d in executed for d in deps)
DepsExecuted(deps, done) ==
    \A d \in deps : d \in done

\* lines 275-280: ready primitives, in plan order
RECURSIVE ReadyPrimitives(_, _, _, _)
ReadyPrimitives(p, pend, done, i) ==
    IF i > Len(p.primitives) THEN <<>>
    ELSE (IF /\ p.primitives[i] \in pend
             /\ DepsExecuted(p.dependencies[p.primitives[i]], done)
          THEN <<p.primitives[i]>> ELSE <<>>)
            \o ReadyPrimitives(p, pend, done, i + 1)

\* mutation of NoneReady: the empty wave is not detected
NoneReady_NeverDetected(ready) ==
    FALSE

\* line 282: "if not ready"
NoneReady(ready) ==
    ready = <<>>

\* line 295: the retry condition
ShouldRetry(prim_result, policy) ==
    prim_result.status = "failed" /\ policy.enabled

\* line 297: plan.retry_policy.get('max_retries', 3)
DefaultMaxRetries == 3
RetryCount(policy) ==
    IF policy.max_retries = Absent THEN DefaultMaxRetries
    ELSE policy.max_retries

\* mutation of KeepsRetryResult: the result of every retry is stored
KeepsRetryResult_Always(retry_result) ==
    TRUE

\* line 301: only a completed retry result replaces the stored result
KeepsRetryResult(retry_result) ==
    retry_result.status = "completed"

\* ---- _execute_sequential helper ------------------------------------------

\* mutation of SequentialAborts: a failed result does not stop the plan
SequentialAborts_Never(prim_result) ==
    FALSE

\* line 254: a failed result raises ValidationError
SequentialAborts(prim_result) ==
    prim_result.status = "failed"

\* ---- _execute_real_time helpers ------------------------------------------

\* line 308: timeout = plan.timeout_ms or 100
DefaultTimeoutMs == 100
EffectiveTimeout(timeout_ms) ==
    IF timeout_ms = Absent \/ timeout_ms = 0 THEN DefaultTimeoutMs
    ELSE timeout_ms

\* mutation of TimeoutResult: the timeout is swallowed as a success
TimeoutResult_Completed(timeout, attempt) ==
    PrimitiveResult("completed", Absent, attempt)

\* lines 316-321: the result substituted for a primitive that timed out
TimeoutResult(timeout, attempt) ==
    PrimitiveResult("failed", timeout, attempt)

\* ---- execute_plan finalisation -------------------------------------------

\* The appended OrchestrationResult, by the fields that get_metrics reads
\* back from the history (lines 500-511).
HistoryEntry(res) ==
    [plan_id |-> res.plan_id, status |-> res.status,
     end_time |-> res.end_time, error_count |-> Len(res.errors)]

\* mutation of HistoryAfter: only successful runs are recorded
HistoryAfter_OnlyCompleted(history, res) ==
    IF res.status = "completed" THEN Append(history, HistoryEntry(res))
    ELSE history

\* lines 234-235: result.end_time is stamped and the result appended
HistoryAfter(history, res) ==
    Append(history, HistoryEntry(res))

\* lines 237-238: the plan leaves the active set if it is there
ActiveAfter(active, plan_id) ==
    active \ {plan_id}

\* lines 240-244 and 428-434: the plan_completed event; duration_ms is None
\* unless end_time is set
PlanCompletedEvent(res) ==
    [type |-> "plan_completed", plan_id |-> res.plan_id,
     status |-> res.status, has_duration |-> res.end_time]

\* lines 199-203: the plan_created event
PlanCreatedEvent(p) ==
    [type |-> "plan_created", plan_id |-> p.id,
     status |-> "none", has_duration |-> FALSE]

\* ---- the plans handed to execute_plan ------------------------------------

\* create_plan(primitives, mode, dependencies, **kwargs).  dependencies and
\* retry_policy are read by _execute_adaptive only and timeout_ms by
\* _execute_real_time only, so they vary only for those modes.
Plans ==
    UNION {
      {[id |-> PlanId, mode |-> m, primitives |-> PlanPrimitives(n),
        dependencies |-> NoDependencies(n),
        retry_policy |-> [enabled |-> FALSE, max_retries |-> Absent],
        timeout_ms |-> Absent] : m \in {"sequential", "parallel"}}
      \cup
      {[id |-> PlanId, mode |-> "adaptive", primitives |-> PlanPrimitives(n),
        dependencies |-> d, retry_policy |-> rp, timeout_ms |-> Absent] :
           d \in DependencyMaps(n), rp \in RetryPolicies}
      \cup
      {[id |-> PlanId, mode |-> "real_time", primitives |-> PlanPrimitives(n),
        dependencies |-> NoDependencies(n),
        retry_policy |-> [enabled |-> FALSE, max_retries |-> Absent],
        timeout_ms |-> t] : t \in {Absent, 0, 50}}
      : n \in 1..MaxPrims }

\* lines 209-224: execute_plan is called, on a plan created by create_plan
\* or on one that was executed before; the result is constructed and the
\* strategy of the plan's mode is entered
BeginExecute ==
    /\ vos_pc \in {"idle", "returned"}
    /\ executions < MaxExecutions
    /\ executions' = executions + 1
    /\ result' = OrchestrationResult(Len(plan.primitives))
    /\ executed' = {}
    /\ pending' = IF plan.mode = "adaptive"
                  THEN {plan.primitives[i] : i \in 1..Len(plan.primitives)}
                  ELSE {}
    /\ aio_tasks' = <<>>
    /\ ai' = 1
    /\ retry_i' = 0
    /\ started' = [p \in DOMAIN started |-> 0]
    /\ outcomes' = [p \in DOMAIN outcomes |-> <<>>]
    /\ vos_pc' = CASE plan.mode = "sequential" -> "seq"
                   [] plan.mode = "parallel" -> "par_create"
                   [] plan.mode = "adaptive" -> "adapt_loop"
                   [] plan.mode = "real_time" -> "rt_create"
    /\ UNCHANGED <<plan, active_plans, execution_history, event_queue>>
    /\ UNCHANGED <<vo_vars, rest_vars>>

\* the strategy returned: line 226
StrategyReturned(res) ==
    [res EXCEPT !.status = "completed"]

\* the strategy raised: lines 228-231
StrategyRaised(res, error) ==
    [res EXCEPT !.status = "failed", !.errors = Append(@, error)]

\* ---- sequential ----------------------------------------------------------

\* lines 250-251: the next primitive's execute is entered, or the loop ends
SeqNext ==
    /\ vos_pc = "seq"
    /\ IF ai > Len(plan.primitives)
       THEN /\ result' = StrategyReturned(result)
            /\ vos_pc' = "finally"
            /\ UNCHANGED started
       ELSE /\ started' = [started EXCEPT ![plan.primitives[ai]] = @ + 1]
            /\ vos_pc' = "seq_run"
            /\ UNCHANGED result
    /\ UNCHANGED <<plan, active_plans, execution_history, event_queue,
                   executions, executed, pending, aio_tasks, ai, retry_i, outcomes>>
    /\ UNCHANGED <<vo_vars, rest_vars>>

\* lines 251-255: execute returned; the result is stored and a failed one
\* raises ValidationError
SeqFinish ==
    /\ vos_pc = "seq_run"
    /\ \E status \in {"completed", "failed"} :
         LET name == plan.primitives[ai]
             prim_result == PrimitiveResult(status, Absent, started[name])
             stored == [result EXCEPT !.primitive_results[name] = prim_result]
         IN /\ outcomes' = [outcomes EXCEPT ![name] = Append(@, status)]
            /\ IF SequentialAborts(prim_result)
               THEN /\ result' = StrategyRaised(stored, "Primitive failed")
                    /\ vos_pc' = "finally"
                    /\ UNCHANGED ai
               ELSE /\ result' = stored
                    /\ ai' = ai + 1
                    /\ vos_pc' = "seq"
    /\ UNCHANGED <<plan, active_plans, execution_history, event_queue,
                   executions, executed, pending, aio_tasks, retry_i, started>>
    /\ UNCHANGED <<vo_vars, rest_vars>>

\* ---- asyncio tasks -------------------------------------------------------

\* asyncio.create_task(...) for each of the given primitives, in order
CreateTasks(names) ==
    [i \in 1..Len(names) |->
        [name |-> names[i], state |-> "created", attempt |-> 0,
         result |-> NoResult]]

\* The coroutine running execute_plan is suspended: it awaits a task that is
\* not done, or it is inside an awaited execute call, or it has returned.
\* Tasks of the event loop run only then.
MainSuspended ==
    \/ /\ vos_pc \in {"par_await", "rt_await", "adapt_await"}
       /\ ai <= Len(aio_tasks)
       /\ aio_tasks[ai].state # "done"
    \/ vos_pc \in {"retry_run", "returned"}

\* the event loop runs the first step of the oldest task not yet started:
\* primitive.execute(context) is entered
TaskStart ==
    /\ MainSuspended
    /\ \E i \in 1..Len(aio_tasks) :
         /\ aio_tasks[i].state = "created"
         /\ \A j \in 1..(i - 1) : aio_tasks[j].state # "created"
         /\ started' = [started EXCEPT ![aio_tasks[i].name] = @ + 1]
         /\ aio_tasks' = [aio_tasks EXCEPT ![i].state = "running",
                                   ![i].attempt = started[aio_tasks[i].name] + 1]
    /\ UNCHANGED <<plan, active_plans, execution_history, event_queue,
                   executions, vos_pc, result, executed, pending, ai,
                   retry_i, outcomes>>
    /\ UNCHANGED <<vo_vars, rest_vars>>

\* a task of _execute_parallel or _execute_adaptive ends: execute returned a
\* completed or a failed result (every execute of vos_primitives.py catches
\* Exception and returns a failed result)
TaskFinish ==
    /\ MainSuspended
    /\ plan.mode \in {"parallel", "adaptive"}
    /\ \E i \in 1..Len(aio_tasks), status \in {"completed", "failed"} :
         /\ aio_tasks[i].state = "running"
         /\ aio_tasks' = [aio_tasks EXCEPT
                         ![i].state = "done",
                         ![i].result = PrimitiveResult(status, Absent,
                                                       aio_tasks[i].attempt)]
         /\ outcomes' = [outcomes EXCEPT ![aio_tasks[i].name] = Append(@, status)]
    /\ UNCHANGED <<plan, active_plans, execution_history, event_queue,
                   executions, vos_pc, result, executed, pending, ai,
                   retry_i, started>>
    /\ UNCHANGED <<vo_vars, rest_vars>>

\* lines 310-321: a task of _execute_real_time ends: execute returned within
\* the timeout, or wait_for cancelled it and the timeout result is returned
RealTimeTaskFinish ==
    /\ MainSuspended
    /\ plan.mode = "real_time"
    /\ \E i \in 1..Len(aio_tasks),
          status \in {"completed", "failed", "cancelled"} :
         /\ aio_tasks[i].state = "running"
         /\ aio_tasks' = [aio_tasks EXCEPT
                        ![i].state = "done",
                        ![i].result =
                            IF status = "cancelled"
                            THEN TimeoutResult(EffectiveTimeout(plan.timeout_ms),
                                               aio_tasks[i].attempt)
                            ELSE PrimitiveResult(status, Absent,
                                                 aio_tasks[i].attempt)]
         /\ outcomes' = [outcomes EXCEPT ![aio_tasks[i].name] = Append(@, status)]
    /\ UNCHANGED <<plan, active_plans, execution_history, event_queue,
                   executions, vos_pc, result, executed, pending, ai,
                   retry_i, started>>
    /\ UNCHANGED <<vo_vars, rest_vars>>

\* ---- parallel and real_time ----------------------------------------------

\* lines 259-262 and 323-326: one task per primitive, in plan order
CreateAllTasks ==
    /\ vos_pc \in {"par_create", "rt_create"}
    /\ aio_tasks' = CreateTasks(plan.primitives)
    /\ ai' = 1
    /\ vos_pc' = IF vos_pc = "par_create" THEN "par_await" ELSE "rt_await"
    /\ UNCHANGED <<plan, active_plans, execution_history, event_queue,
                   executions, result, executed, pending, retry_i, started,
                   outcomes>>
    /\ UNCHANGED <<vo_vars, rest_vars>>

\* lines 264-266 and 328-329: the tasks are awaited in plan order and their
\* results stored; after the last one the strategy returns
AwaitTask ==
    /\ vos_pc \in {"par_await", "rt_await"}
    /\ IF ai > Len(aio_tasks)
       THEN /\ result' = StrategyReturned(result)
            /\ vos_pc' = "finally"
            /\ UNCHANGED ai
       ELSE /\ aio_tasks[ai].state = "done"
            /\ result' = [result EXCEPT
                  !.primitive_results[aio_tasks[ai].name] = aio_tasks[ai].result]
            /\ ai' = ai + 1
            /\ UNCHANGED vos_pc
    /\ UNCHANGED <<plan, active_plans, execution_history, event_queue,
                   executions, executed, pending, aio_tasks, retry_i, started,
                   outcomes>>
    /\ UNCHANGED <<vo_vars, rest_vars>>

\* ---- adaptive ------------------------------------------------------------

\* lines 273-286: loop test, ready scan, circular-dependency raise, and the
\* creation of the tasks of the wave
AdaptiveWave ==
    /\ vos_pc = "adapt_loop"
    /\ IF pending = {}
       THEN /\ result' = StrategyReturned(result)
            /\ vos_pc' = "finally"
            /\ UNCHANGED <<aio_tasks, ai>>
       ELSE LET ready == ReadyPrimitives(plan, pending, executed, 1) IN
            IF NoneReady(ready)
            THEN /\ result' = StrategyRaised(result,
                       "Circular dependency detected in orchestration plan")
                 /\ vos_pc' = "finally"
                 /\ UNCHANGED <<aio_tasks, ai>>
            ELSE /\ aio_tasks' = CreateTasks(ready)
                 /\ ai' = 1
                 /\ vos_pc' = "adapt_await"
                 /\ UNCHANGED result
    /\ UNCHANGED <<plan, active_plans, execution_history, event_queue,
                   executions, executed, pending, retry_i, started, outcomes>>
    /\ UNCHANGED <<vo_vars, rest_vars>>

\* lines 288-297: the next task of the wave is awaited; its result is
\* stored, the primitive moves from pending to executed, and a failed result
\* enters the retry loop when the policy is enabled
AdaptiveAwait ==
    /\ vos_pc = "adapt_await"
    /\ IF ai > Len(aio_tasks)
       THEN /\ vos_pc' = "adapt_loop"
            /\ UNCHANGED <<result, executed, pending, ai, retry_i>>
       ELSE /\ aio_tasks[ai].state = "done"
            /\ result' = [result EXCEPT
                  !.primitive_results[aio_tasks[ai].name] = aio_tasks[ai].result]
            /\ executed' = executed \cup {aio_tasks[ai].name}
            /\ pending' = pending \ {aio_tasks[ai].name}
            /\ IF ShouldRetry(aio_tasks[ai].result, plan.retry_policy)
               THEN /\ retry_i' = 0
                    /\ vos_pc' = "retry"
                    /\ UNCHANGED ai
               ELSE /\ ai' = ai + 1
                    /\ UNCHANGED <<vos_pc, retry_i>>
    /\ UNCHANGED <<plan, active_plans, execution_history, event_queue,
                   executions, aio_tasks, started, outcomes>>
    /\ UNCHANGED <<vo_vars, rest_vars>>

\* lines 298-300: the retry loop enters execute again, or is exhausted
RetryNext ==
    /\ vos_pc = "retry"
    /\ IF retry_i >= RetryCount(plan.retry_policy)
       THEN /\ ai' = ai + 1
            /\ vos_pc' = "adapt_await"
            /\ UNCHANGED started
       ELSE /\ started' = [started EXCEPT ![aio_tasks[ai].name] = @ + 1]
            /\ vos_pc' = "retry_run"
            /\ UNCHANGED ai
    /\ UNCHANGED <<plan, active_plans, execution_history, event_queue,
                   executions, result, executed, pending, aio_tasks, retry_i,
                   outcomes>>
    /\ UNCHANGED <<vo_vars, rest_vars>>

\* lines 300-303: the retried execute returned
RetryFinish ==
    /\ vos_pc = "retry_run"
    /\ \E status \in {"completed", "failed"} :
         LET name == aio_tasks[ai].name
             retry_result == PrimitiveResult(status, Absent, started[name])
         IN /\ outcomes' = [outcomes EXCEPT ![name] = Append(@, status)]
            /\ IF KeepsRetryResult(retry_result)
               THEN /\ result' = [result EXCEPT
                          !.primitive_results[name] = retry_result]
                    /\ ai' = ai + 1
                    /\ vos_pc' = "adapt_await"
                    /\ UNCHANGED retry_i
               ELSE /\ retry_i' = retry_i + 1
                    /\ vos_pc' = "retry"
                    /\ UNCHANGED <<result, ai>>
    /\ UNCHANGED <<plan, active_plans, execution_history, event_queue,
                   executions, executed, pending, aio_tasks, started>>
    /\ UNCHANGED <<vo_vars, rest_vars>>

\* ---- finally -------------------------------------------------------------

\* lines 233-246: end time, history, active set, plan_completed event, and
\* the return of the result
Finalize ==
    /\ vos_pc = "finally"
    /\ LET final == [result EXCEPT !.end_time = TRUE] IN
         /\ result' = final
         /\ execution_history' = HistoryAfter(execution_history, final)
         /\ active_plans' = ActiveAfter(active_plans, plan.id)
         /\ event_queue' = Append(event_queue, PlanCompletedEvent(final))
    /\ vos_pc' = "returned"
    /\ UNCHANGED <<plan, executions, executed, pending, aio_tasks, ai, retry_i,
                   started, outcomes>>
    /\ UNCHANGED <<vo_vars, rest_vars>>

VOSRun ==
    \/ SeqNext
    \/ SeqFinish
    \/ TaskStart
    \/ TaskFinish
    \/ RealTimeTaskFinish
    \/ CreateAllTasks
    \/ AwaitTask
    \/ AdaptiveWave
    \/ AdaptiveAwait
    \/ RetryNext
    \/ RetryFinish
    \/ Finalize

VOSNext ==
    \/ BeginExecute
    \/ VOSRun

\* ========================================================================
\* Part III : the event bus of VOSOrchestrator
\*            (initialize, _emit_event, _process_events, shutdown)
\* ========================================================================

\* the event types: handlers are registered for plan_completed only, so
\* _event_handlers.get('plan_created', []) is the empty list
EventType == {"plan_created", "plan_completed"}

\* A handler registered with register_event_handler: a coroutine function
\* (awaited, line 446) or a plain callable (called, line 448), that returns
\* or raises an Exception.
Handler == [is_coroutine : BOOLEAN, raises : BOOLEAN]

\* the four kinds of handler, and the lists of at most n handlers: any kind
\* first, the following handlers of the kinds that follow it in HandlerKinds
HandlerKinds ==
    <<[is_coroutine |-> FALSE, raises |-> FALSE],
      [is_coroutine |-> FALSE, raises |-> TRUE],
      [is_coroutine |-> TRUE, raises |-> FALSE],
      [is_coroutine |-> TRUE, raises |-> TRUE]>>

HandlerLists(n) ==
    {[i \in 1..k |-> HandlerKinds[((t + i - 2) % Len(HandlerKinds)) + 1]] :
       k \in 0..n, t \in DOMAIN HandlerKinds}

\* the handlers looked up for an event (line 442)
HandlersOf(event) ==
    IF event.type \in DOMAIN handlers THEN handlers[event.type] ELSE <<>>

\* no event
NoEvent == [id |-> 0, type |-> "none"]

\* an asyncio task running _process_events: created and not yet run, in
\* wait_for(get), suspended in an awaited handler, or finished (by leaving
\* the while loop or by an exception that left _process_events).
\* Instrumentation: n_done counts the events the task has dispatched, last
\* is the last of them with the handlers invoked for it, and raised_at is
\* n_done + 1 at the time a handler of the task first raised.
LoopTask ==
    [pc |-> "created", event |-> NoEvent, idx |-> 0, invoked |-> <<>>,
     n_done |-> 0, last |-> [event |-> NoEvent, invoked |-> <<>>],
     raised_at |-> 0]

\* lines 449-450: an Exception raised by a handler is caught and logged
HandlerErrorCaught_Never(h) == FALSE

HandlerErrorCaught(h) == TRUE

\* lines 443-450, run from handler i up to the next suspension: a plain
\* callable runs to its end, a coroutine function suspends the loop task.
\* idx is the handler the task is suspended in, Len + 1 after the last one;
\* raised tells whether a handler run on the way raised.
RECURSIVE RunHandlers(_, _, _, _)
RunHandlers(hs, i, invoked, raised) ==
    IF i > Len(hs)
    THEN [idx |-> i, invoked |-> invoked, crashed |-> FALSE,
          raised |-> raised]
    ELSE IF hs[i].is_coroutine
         THEN [idx |-> i, invoked |-> Append(invoked, i), crashed |-> FALSE,
               raised |-> raised]
         ELSE IF hs[i].raises /\ ~HandlerErrorCaught(hs[i])
              THEN [idx |-> i, invoked |-> Append(invoked, i),
                    crashed |-> TRUE, raised |-> TRUE]
              ELSE RunHandlers(hs, i + 1, Append(invoked, i),
                               raised \/ hs[i].raises)

\* line 438: the while test, then line 440
AfterWhileTest == IF running THEN "waiting" ELSE "stopped"

\* the loop task t after RunHandlers returned r for event e
LoopAfter(t, e, r) ==
    LET at == IF r.raised /\ t.raised_at = 0
              THEN t.n_done + 1 ELSE t.raised_at
    IN IF r.crashed
       THEN [t EXCEPT !.pc = "crashed", !.event = e, !.idx = r.idx,
                      !.invoked = r.invoked, !.raised_at = at]
       ELSE IF r.idx <= Len(HandlersOf(e))
            THEN [t EXCEPT !.pc = "in_handler", !.event = e, !.idx = r.idx,
                           !.invoked = r.invoked, !.raised_at = at]
            ELSE [t EXCEPT !.pc = AfterWhileTest, !.event = NoEvent,
                           !.idx = 0, !.invoked = <<>>,
                           !.n_done = t.n_done + 1,
                           !.last = [event |-> e, invoked |-> r.invoked],
                           !.raised_at = at]

\* the loop tasks after task l has become t: a task that left the while
\* loop is finished and gone
LoopsAfter(l, t) ==
    IF t.pc = "stopped"
    THEN [k \in 1..(Len(loops) - 1) |->
             IF k < l THEN loops[k] ELSE loops[k + 1]]
    ELSE [loops EXCEPT ![l] = t]

\* the calls suspended in asyncio.gather (lines 144 and 477)
Suspended == callers.init_await + callers.shut_await

\* ---- initialize and shutdown -----------------------------------------------

\* lines 101-110 and 127-151: initialize is called while _initialized is
\* clear (otherwise it returns at once).  The components are constructed and
\* the call suspends in asyncio.gather, or an import or a constructor raises
\* and the call raises ConfigurationError (lines 123-125).
InitializeCall ==
    /\ ~initialized
    /\ Suspended < MaxCallers
    /\ Len(loops) + callers.init_await < MaxLoops
    /\ \E constructed \in BOOLEAN :
         IF constructed
         THEN /\ components' = TRUE
              /\ callers' = [callers EXCEPT !.init_await = @ + 1]
         ELSE UNCHANGED <<components, callers>>
    /\ UNCHANGED <<initialized, running, ev_queue, handlers, loops, emitted>>
    /\ UNCHANGED not_ev_vars

\* lines 111-125: the gather of the components' initialize calls is over.
\* When none of them raised, the primitives are registered, the
\* _process_events task is created, and _initialized and _running are set;
\* otherwise the call raises ConfigurationError.
InitializeResume ==
    /\ callers.init_await > 0
    /\ callers' = [callers EXCEPT !.init_await = @ - 1]
    /\ \E ok \in BOOLEAN :
         IF ok
         THEN /\ loops' = Append(loops, LoopTask)
              /\ initialized' = TRUE
              /\ running' = TRUE
         ELSE UNCHANGED <<loops, initialized, running>>
    /\ UNCHANGED <<components, ev_queue, handlers, emitted>>
    /\ UNCHANGED not_ev_vars

\* lines 455-480: shutdown is called.  _running is cleared; with components
\* to shut down the call suspends in asyncio.gather (line 477), without any
\* the gather of nothing does not suspend and _initialized is cleared.
ShutdownCall ==
    /\ Suspended < MaxCallers
    /\ running' = FALSE
    /\ IF components
       THEN /\ callers' = [callers EXCEPT !.shut_await = @ + 1]
            /\ UNCHANGED initialized
       ELSE /\ initialized' = FALSE
            /\ UNCHANGED callers
    /\ UNCHANGED <<components, ev_queue, handlers, loops, emitted>>
    /\ UNCHANGED not_ev_vars

\* lines 477-480: the gather of the components' shutdown calls is over
ShutdownResume ==
    /\ callers.shut_await > 0
    /\ callers' = [callers EXCEPT !.shut_await = @ - 1]
    /\ initialized' = FALSE
    /\ UNCHANGED <<running, components, ev_queue, handlers, loops, emitted>>
    /\ UNCHANGED not_ev_vars

\* lines 428-434: _emit_event puts an event on the unbounded queue.
\* Instrumentation: the queued event tells whether _initialized was set
\* when it was put.
EmitEvent ==
    /\ emitted < MaxEvents
    /\ \E type \in EventType :
         ev_queue' = Append(ev_queue, [id |-> emitted + 1, type |-> type,
                                       initialized |-> initialized])
    /\ emitted' = emitted + 1
    /\ UNCHANGED <<initialized, running, components, handlers, loops,
                   callers>>
    /\ UNCHANGED not_ev_vars

\* ---- _process_events -------------------------------------------------------

\* line 438, first run of a created task: the while test
LoopStart ==
    \E l \in DOMAIN loops :
      /\ loops[l].pc = "created"
      /\ loops' = LoopsAfter(l, [loops[l] EXCEPT !.pc = AfterWhileTest])
      /\ UNCHANGED <<initialized, running, components, ev_queue, handlers,
                     callers, emitted>>
      /\ UNCHANGED not_ev_vars

\* lines 440-450: get returns the oldest event to a task waiting in
\* wait_for; the task runs the handlers up to its next suspension
LoopGet ==
    \E l \in DOMAIN loops :
      /\ loops[l].pc = "waiting"
      /\ ev_queue /= <<>>
      /\ LET e == [id |-> Head(ev_queue).id, type |-> Head(ev_queue).type]
             r == RunHandlers(HandlersOf(e), 1, <<>>, FALSE)
         IN loops' = LoopsAfter(l, LoopAfter(loops[l], e, r))
      /\ ev_queue' = Tail(ev_queue)
      /\ UNCHANGED <<initialized, running, components, handlers, callers,
                     emitted>>
      /\ UNCHANGED not_ev_vars

\* lines 452-453 and 438: wait_for times out on the empty queue and the
\* while test is made again; the task goes on waiting while _running is set
LoopTimeout ==
    \E l \in DOMAIN loops :
      /\ loops[l].pc = "waiting"
      /\ ev_queue = <<>>
      /\ loops' = LoopsAfter(l, [loops[l] EXCEPT !.pc = AfterWhileTest])
      /\ UNCHANGED <<initialized, running, components, ev_queue, handlers,
                     callers, emitted>>
      /\ UNCHANGED not_ev_vars

\* lines 446 and 449-450: the awaited handler returns or raises, and the
\* task runs the remaining handlers up to its next suspension
LoopHandlerDone ==
    \E l \in DOMAIN loops :
      /\ loops[l].pc = "in_handler"
      /\ LET e == loops[l].event
             hs == HandlersOf(e)
             h == hs[loops[l].idx]
             r == IF h.raises /\ ~HandlerErrorCaught(h)
                  THEN [idx |-> loops[l].idx, invoked |-> loops[l].invoked,
                        crashed |-> TRUE, raised |-> TRUE]
                  ELSE RunHandlers(hs, loops[l].idx + 1, loops[l].invoked,
                                   h.raises)
         IN loops' = LoopsAfter(l, LoopAfter(loops[l], e, r))
      /\ UNCHANGED <<initialized, running, components, ev_queue, handlers,
                     callers, emitted>>
      /\ UNCHANGED not_ev_vars

EVNext ==
    \/ InitializeCall
    \/ InitializeResume
    \/ ShutdownCall
    \/ ShutdownResume
    \/ EmitEvent
    \/ LoopStart
    \/ LoopGet
    \/ LoopTimeout
    \/ LoopHandlerDone

\* ========================================================================
\* Part IV : the primitives (gatf_vos/vos_primitives.py)
\* ========================================================================

\* PrimitiveType, in declaration order; each names one specialization
PrimitiveType ==
    <<"detection", "correction", "uncertainty", "coordination", "trust",
      "memory", "handoff", "workflow", "compliance", "benchmark">>

\* What a call of execute meets: the narrowed operation (detect, correct,
\* quantify, ...) returns or raises an Exception, the value it returns has a
\* length or not, and a callback registered for the completion event raises
\* an Exception or none does.
Behaviour ==
    {[op |-> "returns", sized |-> TRUE, callback_raises |-> FALSE],
     [op |-> "returns", sized |-> FALSE, callback_raises |-> FALSE],
     [op |-> "returns", sized |-> TRUE, callback_raises |-> TRUE],
     [op |-> "raises", sized |-> FALSE, callback_raises |-> FALSE]}

\* a member of a composed primitive: its specialization, what a call of its
\* execute meets, and the str() of the exceptions raised there
Member(k, type, b) ==
    [type |-> type, behaviour |-> b,
     op_error |-> <<"operation", k>>, callback_error |-> <<"callback", k>>]

\* the lists of n members: any specialization first, the following ones in
\* declaration order after it, each with any behaviour
MemberLists(n) ==
    {[k \in 1..n |->
         Member(k, PrimitiveType[((t + k - 2) % Len(PrimitiveType)) + 1],
                bs[k])] :
       t \in 1..Len(PrimitiveType), bs \in [1..n -> Behaviour]}

\* PrimitiveResult(status=FAILED, data=None, errors=[str(e)])
FailedResult(text) ==
    [status |-> "failed", data |-> "None", errors |-> <<text>>]

\* PrimitiveResult(status=COMPLETED, data=...): the data is the value the
\* operation returned, for TrustPrimitive wrapped as {'trust_score': value}
CompletedResult(m) ==
    [status |-> "completed",
     data |-> IF m.type = "trust" THEN <<"trust_score", "value">>
              ELSE "value",
     errors |-> <<>>]

\* the exception left execute
Propagated == [status |-> "propagated", data |-> "None", errors |-> <<>>]

\* "except Exception as e" of the execute of each specialization
CatchesException_NotBenchmark(type) == type /= "benchmark"

CatchesException(type) == TRUE

\* execute of the ten specializations (lines 166-186, 200-220, ...): the
\* operation is awaited, the callbacks are triggered, the result is built
\* (UncertaintyPrimitive takes len() of the returned value for its
\* metrics); an Exception raised on the way is caught and turned into a
\* failed result.
Execute(m) ==
    IF m.behaviour.op = "raises"
    THEN IF CatchesException(m.type) THEN FailedResult(m.op_error)
         ELSE Propagated
    ELSE IF m.behaviour.callback_raises
         THEN FailedResult(m.callback_error)
         ELSE IF m.type = "uncertainty" /\ ~m.behaviour.sized
              THEN FailedResult(<<"TypeError", 0>>)
              ELSE CompletedResult(m)

\* lines 137-144: a failed member result ends ComposedPrimitive.execute
StopsOnFailure_Never(r) == FALSE

StopsOnFailure(r) == r.status = "failed"

\* the sequence s followed by the sequence t (list.extend)
Extend(s, t) == s \o t

\* lines 130-144: one pass of the loop of ComposedPrimitive.execute: the
\* next member is executed and its result and errors are accumulated; a
\* failed result is returned at once, an exception of the member leaves
\* execute
ComposedStep ==
    /\ pr_pc = "running"
    /\ pr_i <= Len(members)
    /\ LET r == Execute(members[pr_i])
       IN IF r.status = "propagated"
          THEN /\ pr_pc' = "raised"
               /\ UNCHANGED <<pr_results, pr_errors, pr_out, pr_i>>
          ELSE /\ pr_results' = Append(pr_results, r)
               /\ pr_errors' = Extend(pr_errors, r.errors)
               /\ IF StopsOnFailure(r)
                  THEN /\ pr_out' = [status |-> "failed",
                                     data |-> pr_results',
                                     errors |-> pr_errors']
                       /\ pr_pc' = "returned"
                       /\ UNCHANGED pr_i
                  ELSE /\ pr_i' = pr_i + 1
                       /\ UNCHANGED <<pr_out, pr_pc>>
    /\ UNCHANGED members
    /\ UNCHANGED not_pr_vars

\* lines 146-152: the loop is over without a failed member
ComposedReturn ==
    /\ pr_pc = "running"
    /\ pr_i > Len(members)
    /\ pr_out' = [status |-> "completed", data |-> pr_results,
                  errors |-> pr_errors]
    /\ pr_pc' = "returned"
    /\ UNCHANGED <<members, pr_i, pr_results, pr_errors>>
    /\ UNCHANGED not_pr_vars

PRNext ==
    \/ ComposedStep
    \/ ComposedReturn

\* ========================================================================
\* Part V : MemoryCache (gatf/utils/caching.py)
\* ========================================================================

\* the keys used with the cache
CacheKeys == {"a", "b", "c"}

\* MemoryCache.eviction_policy
EvictionPolicy == {"lru", "lfu", "fifo"}

\* A CacheEntry as set creates it (lines 108-113).  ttl is Absent for None;
\* expired is is_expired (lines 44-49), which the passing of time turns
\* true for an entry with a ttl.
CacheEntry(key, value, ttl) ==
    [key |-> key, value |-> value, ttl |-> ttl, expired |-> FALSE,
     access_count |-> 0]

\* position of key in the OrderedDict c, 0 when it is not a key of c
IndexOf(c, key) ==
    IF \E i \in DOMAIN c : c[i].key = key
    THEN CHOOSE i \in DOMAIN c : c[i].key = key
    ELSE 0

\* the keys of the OrderedDict c
KeysOf(c) == {c[i].key : i \in DOMAIN c}

\* c without its i-th item (OrderedDict.pop)
RemoveAt(c, i) ==
    [k \in 1..(Len(c) - 1) |-> IF k < i THEN c[k] ELSE c[k + 1]]

\* c with its i-th item moved to the end (OrderedDict.move_to_end)
MoveToEnd(c, i) == Append(RemoveAt(c, i), c[i])

\* get, lines 79-100: the cache afterwards and the value returned
\* ("None" on a miss); an expired entry is removed, a hit is counted on the
\* entry and, under lru, moves the entry to the end
CacheGet(c, policy, key) ==
    LET i == IndexOf(c, key)
    IN IF i = 0
       THEN [cache |-> c, value |-> "None"]
       ELSE IF c[i].expired
            THEN [cache |-> RemoveAt(c, i), value |-> "None"]
            ELSE LET touched == [c EXCEPT ![i].access_count = @ + 1]
                 IN [cache |-> IF policy = "lru"
                               THEN MoveToEnd(touched, i) ELSE touched,
                     value |-> c[i].value]

\* the position _evict removes (lines 132-148): the first item under lru
\* and fifo, the first item of least access_count under lfu; 0 on an empty
\* cache
EvictIndex(c, policy) ==
    IF c = <<>> THEN 0
    ELSE IF policy = "lfu"
         THEN CHOOSE i \in DOMAIN c :
                 /\ \A j \in DOMAIN c : c[i].access_count <= c[j].access_count
                 /\ \A j \in 1..(i - 1) :
                       c[j].access_count > c[i].access_count
         ELSE 1

\* line 105: set evicts when the cache is full and the key is new
MustEvict(c, max_size, key) == Len(c) >= max_size /\ key \notin KeysOf(c)

\* set, lines 104-106: the cache after the eviction test
AfterEvict(c, policy, max_size, key) ==
    IF MustEvict(c, max_size, key) /\ EvictIndex(c, policy) > 0
    THEN RemoveAt(c, EvictIndex(c, policy))
    ELSE c

\* set, lines 108-116: the new entry is stored under the key; a key already
\* in the OrderedDict keeps its position
AfterStore(c, key, value, ttl) ==
    LET i == IndexOf(c, key)
    IN IF i = 0
       THEN Append(c, CacheEntry(key, value, ttl))
       ELSE [c EXCEPT ![i] = CacheEntry(key, value, ttl)]

\* set as a whole
CacheSet(c, policy, max_size, key, value, ttl) ==
    AfterStore(AfterEvict(c, policy, max_size, key), key, value, ttl)

\* delete, lines 119-125
CacheDelete(c, key) ==
    IF IndexOf(c, key) = 0 THEN c ELSE RemoveAt(c, IndexOf(c, key))

\* ---- the cache used from threads --------------------------------------------

\* the threads using the cache
Threads == {1, 2}

\* a thread that is not inside set
NoOp == [op |-> "none", key |-> "none", ttl |-> Absent]

\* the ttl arguments of set: None and a number of seconds
TTLs == {Absent, 60}

\* "with self._lock" (lines 81, 104, 121, 129): the lock is free
LockFree_Always == TRUE

LockFree == mc_lock = 0

\* the sequence of keys s without key
Without(s, key) == SelectSeq(s, LAMBDA k : k /= key)

\* no eviction has been made
NoEvict ==
    [key |-> "none", evicted_n |-> 1, was_least_recent |-> TRUE,
     was_oldest |-> TRUE]

\* the sequence of calls of the example: with max_size = 2, set a, set b,
\* get a, set c
Scenario ==
    <<[op |-> "set", key |-> "a"], [op |-> "set", key |-> "b"],
      [op |-> "get", key |-> "a"], [op |-> "set", key |-> "c"]>>

\* how much of Scenario the calls made so far are, after one more call
ScenarioAfter(op, key) ==
    IF /\ mc_scn /= Absent
       /\ mc_scn < Len(Scenario)
       /\ Scenario[mc_scn + 1] = [op |-> op, key |-> key]
    THEN mc_scn + 1
    ELSE Absent

\* get(key) by thread t, lines 79-100
Get ==
    \E t \in Threads, key \in CacheKeys :
      /\ LockFree
      /\ mc_pending[t] = NoOp
      /\ LET i == IndexOf(mc_cache, key)
             r == CacheGet(mc_cache, mc_policy, key)
         IN /\ i > 0 => mc_cache[i].access_count < MaxAccessCount
            /\ mc_cache' = r.cache
            /\ mc_recency' =
                 IF i = 0 THEN mc_recency
                 ELSE IF mc_cache[i].expired THEN Without(mc_recency, key)
                      ELSE Append(Without(mc_recency, key), key)
            /\ mc_inserted' =
                 IF i > 0 /\ mc_cache[i].expired
                 THEN Without(mc_inserted, key) ELSE mc_inserted
      /\ mc_scn' = ScenarioAfter("get", key)
      /\ UNCHANGED <<mc_policy, mc_max_size, mc_lock, mc_pending,
                     mc_last_evict>>
      /\ UNCHANGED not_mc_vars

\* set(key, value, ttl) by thread t, lines 102-106: the lock is taken and
\* the eviction test is made
SetBegin ==
    \E t \in Threads, key \in CacheKeys, ttl \in TTLs :
      /\ LockFree
      /\ mc_pending[t] = NoOp
      /\ mc_lock' = t
      /\ mc_pending' = [mc_pending EXCEPT
                           ![t] = [op |-> "set", key |-> key, ttl |-> ttl]]
      /\ mc_cache' = AfterEvict(mc_cache, mc_policy, mc_max_size, key)
      /\ LET gone == KeysOf(mc_cache) \ KeysOf(mc_cache')
         IN /\ mc_last_evict' =
                 IF MustEvict(mc_cache, mc_max_size, key)
                 THEN [key |-> IF gone = {} THEN "none"
                               ELSE CHOOSE k \in gone : TRUE,
                       evicted_n |-> Cardinality(gone),
                       was_least_recent |->
                           gone = {} \/ Head(mc_recency) \in gone,
                       was_oldest |->
                           gone = {} \/ Head(mc_inserted) \in gone]
                 ELSE mc_last_evict
            /\ mc_recency' = SelectSeq(mc_recency, LAMBDA k : k \notin gone)
            /\ mc_inserted' = SelectSeq(mc_inserted, LAMBDA k : k \notin gone)
      /\ mc_scn' = IF ttl = Absent /\ ScenarioAfter("set", key) /= Absent
                   THEN mc_scn ELSE Absent
      /\ UNCHANGED <<mc_policy, mc_max_size>>
      /\ UNCHANGED not_mc_vars

\* set, lines 108-117: the entry is stored and the lock released
SetEnd ==
    \E t \in Threads :
      /\ mc_pending[t].op = "set"
      /\ LET key == mc_pending[t].key
         IN /\ mc_cache' = AfterStore(mc_cache, key, "value",
                                      mc_pending[t].ttl)
            /\ mc_recency' = Append(Without(mc_recency, key), key)
            /\ mc_inserted' = IF key \in KeysOf(mc_cache) THEN mc_inserted
                              ELSE Append(mc_inserted, key)
            /\ mc_scn' = ScenarioAfter("set", key)
      /\ mc_pending' = [mc_pending EXCEPT ![t] = NoOp]
      /\ mc_lock' = 0
      /\ UNCHANGED <<mc_policy, mc_max_size, mc_last_evict>>
      /\ UNCHANGED not_mc_vars

\* delete(key) by thread t, lines 119-125
Delete ==
    \E t \in Threads, key \in CacheKeys :
      /\ LockFree
      /\ mc_pending[t] = NoOp
      /\ mc_cache' = CacheDelete(mc_cache, key)
      /\ mc_recency' = Without(mc_recency, key)
      /\ mc_inserted' = Without(mc_inserted, key)
      /\ mc_scn' = Absent
      /\ UNCHANGED <<mc_policy, mc_max_size, mc_lock, mc_pending,
                     mc_last_evict>>
      /\ UNCHANGED not_mc_vars

\* clear() by thread t, lines 127-130
Clear ==
    \E t \in Threads :
      /\ LockFree
      /\ mc_pending[t] = NoOp
      /\ mc_cache' = <<>>
      /\ mc_recency' = <<>>
      /\ mc_inserted' = <<>>
      /\ mc_scn' = Absent
      /\ UNCHANGED <<mc_policy, mc_max_size, mc_lock, mc_pending,
                     mc_last_evict>>
      /\ UNCHANGED not_mc_vars

\* lines 44-49: time passes and is_expired becomes true for an entry with a
\* ttl
Expire ==
    \E i \in DOMAIN mc_cache :
      /\ mc_cache[i].ttl /= Absent
      /\ ~mc_cache[i].expired
      /\ mc_cache' = [mc_cache EXCEPT ![i].expired = TRUE]
      /\ UNCHANGED <<mc_policy, mc_max_size, mc_lock, mc_pending, mc_recency,
                     mc_inserted, mc_last_evict, mc_scn>>
      /\ UNCHANGED not_mc_vars

MCNext ==
    \/ Get
    \/ SetBegin
    \/ SetEnd
    \/ Delete
    \/ Clear
    \/ Expire

\* ========================================================================
\* Part VI : ValidationOrchestrator.validate and its result cache
\*           (gatf/validation/orchestrators/validation_orchestrator.py)
\* ========================================================================

\* request_id of the contexts, in the order validate creates them (uuid4,
\* line 122)
RequestIds == <<"r1", "r2", "r3", "r4", "r5", "r6">>

\* agent outputs handed to validate: the integer 1, the string "1" and the
\* string "x"
AgentOutputs == {"int_1", "str_1", "str_x"}

\* str(agent_output), line 672: the integer 1 and the string "1" have the
\* same string form
Str(o) == IF o = "str_x" THEN "x" ELSE "1"

\* hash(json.dumps(...)), lines 672-673: one number per string within a
\* process
Hash(s) == IF s = "1" THEN 11 ELSE IF s = "x" THEN 22 ELSE 33

\* the options of a call: strict_mode and use_cache, each given or not
Options ==
    [strict_mode : {"absent", "True"}, use_cache : {"absent", "False"}]

\* options.get("use_cache", True), line 241
UseCache(options) == options.use_cache /= "False"

\* _generate_cache_key, lines 660-680, as the list of the parts joined by
\* ":"; the expected output is None and no domain is given
GenerateCacheKey(pipeline_name, domain_type, agent_output, options) ==
    <<"validation", pipeline_name, domain_type,
      Hash(Str(agent_output)), Hash("None")>>
    \o (IF options.strict_mode /= "absent"
        THEN <<"strict_mode_True">> ELSE <<>>)

\* the exceptions that leave _execute_pipeline: the circular-dependency
\* error of _execute_tasks (line 423), what a skip condition or the task
\* creation raises (lines 303-307), a pipeline error of a nested call
PipelineExceptions == {"DependencyError", "TypeError", "PipelineError"}

\* line 274, "except Exception": the exception is caught and replaced
CaughtByExcept_NotDependencyError(e) == e /= "DependencyError"

CaughtByExcept(e) == TRUE

\* lines 255 and 268: "context.cache_enabled and self.cache_manager"
CacheUsed(cache_enabled, has_manager) == cache_enabled /\ has_manager

\* line 257, "if cached_result": a context is true, None is not
Truthy_Never(value) == FALSE

Truthy(value) == value /= "None"

\* no call has been made
NoCall ==
    [rid |-> "none", key |-> <<>>, cache_enabled |-> FALSE,
     stored |-> "None"]

\* nothing has been returned or raised
NoOutcome ==
    [kind |-> "none", value |-> "None", error |-> "none",
     escaped |-> "none", tasks |-> 0, cache_enabled |-> FALSE,
     stored |-> "None"]

\* what the cache holds, unexpired, under key ("None" when nothing)
StoredUnder(key) ==
    IF \E i \in DOMAIN vl_cache :
          vl_cache[i].key = key /\ ~vl_cache[i].expired
    THEN vl_cache[IndexOf(vl_cache, key)].value
    ELSE "None"

\* the number of the context with request id rid
NumberOf(rid) == CHOOSE n \in DOMAIN RequestIds : RequestIds[n] = rid

\* validate up to the try statement, lines 236-262: the context is made,
\* the key generated and the cache asked; a hit returns the cached context
ValidateCall ==
    \E o \in AgentOutputs, options \in Options :
      /\ vl_pc = "idle"
      /\ Len(vl_ctx) < MaxCalls
      /\ LET rid == RequestIds[Len(vl_ctx) + 1]
             enabled == vl_cache_enabled /\ UseCache(options)
             key == GenerateCacheKey("default", "none", o, options)
             r == CacheGet(vl_cache, "lru", key)
             call == [rid |-> rid, key |-> key, cache_enabled |-> enabled,
                      stored |-> StoredUnder(key)]
         IN IF CacheUsed(enabled, vl_cache_enabled)
            THEN /\ vl_cache' = r.cache
                 /\ IF Truthy(r.value)
                    THEN /\ vl_pc' = "idle"
                         /\ vl_call' = NoCall
                         /\ vl_ctx' = Append(vl_ctx,
                                 [key |-> key, outcome |-> "hit"])
                         /\ vl_out' = [kind |-> "returned",
                                       value |-> r.value,
                                       error |-> "none",
                                       escaped |-> "none",
                                       tasks |-> 0,
                                       cache_enabled |-> enabled,
                                       stored |-> call.stored]
                    ELSE /\ vl_pc' = "executing"
                         /\ vl_call' = call
                         /\ vl_ctx' = Append(vl_ctx,
                                 [key |-> key, outcome |-> "executing"])
                         /\ vl_out' = NoOutcome
            ELSE /\ vl_cache' = vl_cache
                 /\ vl_pc' = "executing"
                 /\ vl_call' = call
                 /\ vl_ctx' = Append(vl_ctx,
                         [key |-> key, outcome |-> "executing"])
                 /\ vl_out' = NoOutcome
      /\ vl_tasks' = 0
      /\ UNCHANGED <<vl_cache_enabled, vl_max_size>>
      /\ UNCHANGED not_vl_vars

\* _execute_pipeline, line 313: _execute_tasks runs one more task
RunTask ==
    /\ vl_pc = "executing"
    /\ vl_tasks < MaxPipelineTasks
    /\ vl_tasks' = vl_tasks + 1
    /\ UNCHANGED <<vl_cache_enabled, vl_max_size, vl_cache, vl_ctx, vl_call,
                   vl_pc, vl_out>>
    /\ UNCHANGED not_vl_vars

\* lines 265-272 and 277-279: _execute_pipeline returns, the context is
\* cached under the key and returned
PipelineReturns ==
    /\ vl_pc = "executing"
    /\ vl_cache' =
         IF CacheUsed(vl_call.cache_enabled, vl_cache_enabled)
         THEN CacheSet(vl_cache, "lru", vl_max_size, vl_call.key,
                       vl_call.rid, CacheTtl)
         ELSE vl_cache
    /\ vl_ctx' = [vl_ctx EXCEPT ![Len(vl_ctx)].outcome = "returned"]
    /\ vl_out' = [kind |-> "returned", value |-> vl_call.rid,
                  error |-> "none", escaped |-> "none", tasks |-> vl_tasks,
                  cache_enabled |-> vl_call.cache_enabled,
                  stored |-> vl_call.stored]
    /\ vl_pc' = "idle"
    /\ vl_call' = NoCall
    /\ UNCHANGED <<vl_cache_enabled, vl_max_size, vl_tasks>>
    /\ UNCHANGED not_vl_vars

\* lines 274-279: _execute_pipeline raises e; what is caught is replaced by
\* a PipelineError
PipelineRaises ==
    \E e \in PipelineExceptions :
      /\ vl_pc = "executing"
      /\ vl_ctx' = [vl_ctx EXCEPT ![Len(vl_ctx)].outcome = "raised"]
      /\ vl_out' = [kind |-> "raised", value |-> "None",
                    error |-> IF CaughtByExcept(e)
                              THEN "PipelineError" ELSE e,
                    escaped |-> e, tasks |-> vl_tasks,
                    cache_enabled |-> vl_call.cache_enabled,
                    stored |-> vl_call.stored]
      /\ vl_pc' = "idle"
      /\ vl_call' = NoCall
      /\ UNCHANGED <<vl_cache_enabled, vl_max_size, vl_cache, vl_tasks>>
      /\ UNCHANGED not_vl_vars

\* time passes beyond cache_ttl for an entry (CacheEntry.is_expired)
ResultExpires ==
    \E i \in DOMAIN vl_cache :
      /\ ~vl_cache[i].expired
      /\ vl_cache' = [vl_cache EXCEPT ![i].expired = TRUE]
      /\ UNCHANGED <<vl_cache_enabled, vl_max_size, vl_ctx, vl_call, vl_pc,
                     vl_tasks, vl_out>>
      /\ UNCHANGED not_vl_vars

VLNext ==
    \/ ValidateCall
    \/ RunTask
    \/ PipelineReturns
    \/ PipelineRaises
    \/ ResultExpires

\* ========================================================================
\* Part VII : RateLimiter with a token bucket (gatf/utils/rate_limiting.py)
\* ========================================================================
\* Times are in milliseconds and tokens in thousandths of a token, so that
\* the float arithmetic of the bucket is exact.

\* TokenBucket.capacity (line 242), in thousandths of a token
Capacity == MaxRequests * 1000

\* tokens_to_add, line 88: elapsed * refill_rate, with refill_rate =
\* max_requests / time_window tokens a second (line 240)
TokensToAdd_None(elapsed) == 0

TokensToAdd(elapsed) == (elapsed * MaxRequests * 1000) \div TimeWindow

\* _refill, lines 83-90: the tokens after the refill
Refilled(tokens, elapsed) ==
    IF tokens + TokensToAdd(elapsed) < Capacity
    THEN tokens + TokensToAdd(elapsed)
    ELSE Capacity

\* consume, lines 73-80: the tokens left, whether the tokens were taken and
\* retry_after (Absent for None) = tokens_needed / refill_rate
Consume(tokens, elapsed, n) ==
    LET have == Refilled(tokens, elapsed)
    IN IF have >= n * 1000
       THEN [tokens |-> have - n * 1000, allowed |-> TRUE,
             retry_after |-> Absent]
       ELSE [tokens |-> have, allowed |-> FALSE,
             retry_after |->
                 ((n * 1000 - have) * TimeWindow)
                     \div (MaxRequests * 1000)]

\* check_and_consume, lines 269-296: what the caller gets
Outcome(strict, allowed) ==
    IF ~allowed /\ strict THEN "RateLimitExceeded"
    ELSE IF allowed THEN "True" ELSE "False"

\* check_and_consume(1) at the time rl_now
CheckAndConsume ==
    /\ rl_pc = "on"
    /\ Len(rl_log) < MaxLimiterCalls
    /\ LET r == Consume(rl_tokens, rl_now - rl_last_refill, 1)
       IN /\ rl_tokens' = r.tokens
          /\ rl_log' = Append(rl_log,
                 [at |-> rl_now,
                  outcome |-> Outcome(rl_strict, r.allowed),
                  retry_after |-> r.retry_after])
    /\ rl_last_refill' = rl_now
    /\ UNCHANGED <<rl_strict, rl_now, rl_pc>>
    /\ UNCHANGED not_rl_vars

\* time.time() moves on by StepMs
TimePasses ==
    /\ rl_pc = "on"
    /\ rl_now < MaxNow * StepMs
    /\ rl_now' = rl_now + StepMs
    /\ UNCHANGED <<rl_strict, rl_tokens, rl_last_refill, rl_log, rl_pc>>
    /\ UNCHANGED not_rl_vars

RLNext ==
    \/ CheckAndConsume
    \/ TimePasses

\* ========================================================================
\* Part VIII : RedisRateLimiter, sliding and fixed window
\*             (gatf/utils/rate_limiting.py)
\* ========================================================================
\* Times are whole ticks; time_window is WindowTicks ticks.  The keys expire
\* time_window + 60 s after their last write, later than any entry counts.

\* the processes sharing the store, all using the same key
Processes == 1..MaxProcesses

\* a process outside check_and_consume
IdleProcess == [pc |-> "idle", now |-> 0, current |-> 0]

\* zremrangebyscore(redis_key, 0, window_start), line 367: the members of
\* the sorted set with a score above window_start stay
ZRemRangeByScore(zset, window_start) ==
    {m \in zset : m.score > window_start}

\* zadd(redis_key, {f"{now}:{i}": now}), line 379: a member of that name is
\* replaced
ZAdd(zset, name, score) ==
    {m \in zset : m.name /= name} \cup {[name |-> name, score |-> score]}

\* int(time.time() / config.time_window), line 394
WindowId(now) == now \div WindowTicks

\* lines 359-373: now is read, and the first pipeline removes the old
\* entries and counts the others in one transaction
SlidingCount ==
    \E p \in Processes :
      /\ rrl.algorithm = "sliding_window"
      /\ rrl.procs[p].pc = "idle"
      /\ rrl.calls < MaxRedisCalls
      /\ LET kept == ZRemRangeByScore(rrl.zset, rrl.now - WindowTicks)
         IN rrl' = [rrl EXCEPT
                      !.zset = kept,
                      !.calls = @ + 1,
                      !.procs[p] = [pc |-> "counted", now |-> rrl.now,
                                    current |-> Cardinality(kept)]]
      /\ UNCHANGED not_rrl_vars

\* lines 375-390: the count is tested; the second pipeline adds the entry
\* and the call returns True, or the call raises or returns False
SlidingDecide ==
    \E p \in Processes :
      /\ rrl.procs[p].pc = "counted"
      /\ rrl' =
           IF rrl.procs[p].current + 1 <= rrl.max_requests
           THEN [rrl EXCEPT
                    !.zset = ZAdd(@, <<rrl.procs[p].now, 0>>,
                                  rrl.procs[p].now),
                    !.admitted[rrl.procs[p].now] = @ + 1,
                    !.procs[p] = IdleProcess]
           ELSE [rrl EXCEPT !.procs[p] = IdleProcess]
      /\ UNCHANGED not_rrl_vars

\* lines 393-401: the window key is computed and incremented (the expiry is
\* set on the first increment)
FixedIncrement ==
    \E p \in Processes :
      /\ rrl.algorithm = "fixed_window"
      /\ rrl.procs[p].pc = "idle"
      /\ rrl.calls < MaxRedisCalls
      /\ LET w == WindowId(rrl.now)
         IN rrl' = [rrl EXCEPT
                      !.counters[w] = @ + 1,
                      !.calls = @ + 1,
                      !.procs[p] = [pc |-> "incremented", now |-> rrl.now,
                                    current |-> rrl.counters[w] + 1]]
      /\ UNCHANGED not_rrl_vars

\* lines 403-415: the value the increment returned is tested; the call
\* returns True, or rolls the increment back and raises or returns False
FixedDecide ==
    \E p \in Processes :
      /\ rrl.procs[p].pc = "incremented"
      /\ LET w == WindowId(rrl.procs[p].now)
         IN rrl' =
              IF rrl.procs[p].current <= rrl.max_requests
              THEN [rrl EXCEPT !.admitted[rrl.procs[p].now] = @ + 1,
                               !.procs[p] = IdleProcess]
              ELSE [rrl EXCEPT !.counters[w] = @ - 1,
                               !.procs[p] = IdleProcess]
      /\ UNCHANGED not_rrl_vars

\* time.time() moves on by one tick
RedisTimePasses ==
    /\ rrl.now < MaxTicks
    /\ rrl' = [rrl EXCEPT !.now = @ + 1]
    /\ UNCHANGED not_rrl_vars

RRLNext ==
    \/ SlidingCount
    \/ SlidingDecide
    \/ FixedIncrement
    \/ FixedDecide
    \/ RedisTimePasses

\* ========================================================================
\* Part IX : the rate_limit decorator (gatf/utils/rate_limiting.py)
\* ========================================================================

\* the keys key_func gives, and the threads calling the wrapped function
LimiterKeys == {"k1", "k2"}

CallerThreads == 1..MaxThreads

\* a thread outside wrapper
IdleThread == [pc |-> "idle", key |-> "none"]

\* the limiters dictionary with a new RateLimiter stored under key (line
\* 515); the limiters are numbered in the order of their creation
WithNewLimiter(d, key) ==
    [d EXCEPT !.limiters[key] = d.n_created + 1,
              !.n_created = @ + 1,
              !.created[key] = @ + 1]

\* lines 502-508: the key is generated and "key not in limiters" is tested;
\* no lock is held from the test to the creation
WrapperTest ==
    \E t \in CallerThreads, key \in LimiterKeys :
      /\ deco.threads[t].pc = "idle"
      /\ deco.calls < MaxWrapperCalls
      /\ deco' = [deco EXCEPT
                    !.calls = @ + 1,
                    !.threads[t] =
                        [pc |-> IF deco.limiters[key] = 0
                                THEN "create" ELSE "consume",
                         key |-> key]]
      /\ UNCHANGED not_deco_vars

\* lines 509-515: the configuration and the RateLimiter are made and stored
WrapperCreate ==
    \E t \in CallerThreads :
      /\ deco.threads[t].pc = "create"
      /\ deco' = [WithNewLimiter(deco, deco.threads[t].key) EXCEPT
                     !.threads[t].pc = "consume"]
      /\ UNCHANGED not_deco_vars

\* lines 517-521: limiters[key].check_and_consume() and the call of func
WrapperConsume ==
    \E t \in CallerThreads :
      /\ deco.threads[t].pc = "consume"
      /\ LET key == deco.threads[t].key
         IN deco' = [deco EXCEPT
                       !.consumed[key] = @ \cup {deco.limiters[key]},
                       !.threads[t] = IdleThread]
      /\ UNCHANGED not_deco_vars

DECONext ==
    \/ WrapperTest
    \/ WrapperCreate
    \/ WrapperConsume

\* ========================================================================
\* Part X : TrustFramework._assign_badges (gatf/core/trust_framework.py)
\* ========================================================================

\* the general badge types in the order _assign_badges tries them (line 515)
GeneralBadges == <<"platinum", "gold", "silver", "bronze">>

\* _initialize_badge_requirements, lines 172-204
BadgeRequirements ==
    [bronze |->
        [min_score |-> 50, min_domains |-> 1, min_test_cases |-> 10,
         required_metrics |-> {"accuracy", "consistency"}],
     silver |->
        [min_score |-> 70, min_domains |-> 2, min_test_cases |-> 50,
         required_metrics |-> {"accuracy", "consistency", "reliability"}],
     gold |->
        [min_score |-> 85, min_domains |-> 3, min_test_cases |-> 100,
         required_metrics |-> {"accuracy", "consistency", "reliability",
                               "robustness"}],
     platinum |->
        [min_score |-> 95, min_domains |-> 5, min_test_cases |-> 500,
         required_metrics |-> {"accuracy", "consistency", "reliability",
                               "robustness", "fairness"}],
     domain_expert |-> [min_domain_score |-> 90]]

\* lines 518-533: none of the four tests of the loop body skips the type
MeetsRequirements(type, in) ==
    LET requirements == BadgeRequirements[type]
    IN /\ ~(in.overall_score < requirements.min_score)
       /\ ~(in.domains < requirements.min_domains)
       /\ ~(in.num_test_cases < requirements.min_test_cases)
       /\ \A m \in requirements.required_metrics : m \in in.metrics

\* line 552: the loop is left after the first badge
BreaksAfterBadge_Never == FALSE

BreaksAfterBadge == TRUE

\* lines 515-552: the loop over the general badge types, from the i-th on
RECURSIVE GeneralLoop(_, _)
GeneralLoop(i, in) ==
    IF i > Len(GeneralBadges) THEN <<>>
    ELSE IF MeetsRequirements(GeneralBadges[i], in)
         THEN <<GeneralBadges[i]>>
              \o (IF BreaksAfterBadge THEN <<>> ELSE GeneralLoop(i + 1, in))
         ELSE GeneralLoop(i + 1, in)

\* lines 555-569: one domain_expert badge per domain score of at least 90
RECURSIVE ExpertLoop(_)
ExpertLoop(scores) ==
    IF scores = <<>> THEN <<>>
    ELSE (IF Head(scores) >= BadgeRequirements.domain_expert.min_domain_score
          THEN <<"domain_expert">> ELSE <<>>) \o ExpertLoop(Tail(scores))

\* _assign_badges as a whole: the badge types of the list returned
AssignBadges(in) == GeneralLoop(1, in) \o ExpertLoop(in.domain_scores)

\* the inputs: scores and counts at and around the thresholds, the metrics
\* present, and the scores of the domains
BadgeInputs ==
    [overall_score : {49, 50, 72, 85, 94, 95, 100},
     domains : 0..MaxDomains,
     num_test_cases : {9, 10, 60, 100, 499, 500},
     metrics : {{}, {"accuracy"}, {"accuracy", "consistency"},
                {"accuracy", "consistency", "reliability"},
                {"accuracy", "consistency", "reliability", "robustness"},
                {"accuracy", "reliability", "robustness", "fairness"},
                {"accuracy", "consistency", "reliability", "robustness",
                 "fairness"}},
     domain_scores : {<<>>, <<89>>, <<90, 95>>}]

\* _assign_badges is called and returns
AssignBadgesCall ==
    /\ badge.badges = "None"
    /\ badge' = [badge EXCEPT !.badges = AssignBadges(badge.in)]
    /\ UNCHANGED not_badge_vars

BADGENext == AssignBadgesCall

\* ========================================================================
\* Part XI : TrustFramework.validate_agent (gatf/core/trust_framework.py)
\* ========================================================================

\* ValidationSession as create_validation_session leaves it (lines 117-128,
\* 222-231): no results, no metrics, no end time, status pending
NewSession ==
    [status |-> "pending", end_time |-> Absent, results |-> <<>>,
     metrics |-> Absent, trust_score |-> Absent, badges |-> Absent]

\* lines 334-336, the except clause: the session is marked failed and
\* stamped, ValidationError is raised
SessionFailed(t) ==
    [t EXCEPT !.session.status = "failed", !.session.end_time = t.now,
              !.pc = "raised", !.error = "ValidationError"]

\* lines 254-266: the session is found, set running, and the test cases are
\* taken or generated; _generate_test_cases may raise
ValidateAgentStart ==
    /\ tf.pc \in {"idle", "returned", "raised"}
    /\ tf.calls < MaxValidations
    /\ \E n \in 1..MaxValidationDomains, raises \in BOOLEAN :
          LET t == [tf EXCEPT !.session.status = "running",
                              !.calls = @ + 1, !.error = "None",
                              !.validation_domains = n, !.domain = 1,
                              !.all_results = <<>>, !.pc = "domains"]
          IN tf' = IF raises THEN SessionFailed(t) ELSE t
    /\ UNCHANGED not_tf_vars

\* lines 277-295, one turn of the loop: _validate_domain returns the results
\* of the domain, which extend the local all_results, or raises
ValidateDomain ==
    /\ tf.pc = "domains"
    /\ tf.domain <= tf.validation_domains
    /\ \E raises \in BOOLEAN :
          tf' = IF raises THEN SessionFailed(tf)
                ELSE [tf EXCEPT
                        !.all_results = Append(@, <<tf.calls, tf.domain>>),
                        !.domain = @ + 1]
    /\ UNCHANGED not_tf_vars

\* lines 298-304: the results are stored on the session, then the metrics
\* are calculated, which may raise
CalculateMetrics ==
    /\ tf.pc = "domains"
    /\ tf.domain > tf.validation_domains
    /\ \E raises \in BOOLEAN :
          LET t == [tf EXCEPT !.session.results = tf.all_results]
          IN tf' = IF raises THEN SessionFailed(t)
                   ELSE [t EXCEPT !.session.metrics = tf.calls,
                                  !.pc = "score"]
    /\ UNCHANGED not_tf_vars

\* lines 307-310: the trust score is calculated, which may raise
CalculateTrustScore ==
    /\ tf.pc = "score"
    /\ \E raises \in BOOLEAN :
          tf' = IF raises THEN SessionFailed(tf)
                ELSE [tf EXCEPT !.session.trust_score = tf.calls,
                                !.pc = "badges"]
    /\ UNCHANGED not_tf_vars

\* lines 313-330: the badges are assigned, which may raise; then the session
\* is stamped, marked completed and returned
AssignAndComplete ==
    /\ tf.pc = "badges"
    /\ \E raises \in BOOLEAN :
          tf' = IF raises THEN SessionFailed(tf)
                ELSE [tf EXCEPT !.session.badges = tf.calls,
                                !.session.end_time = tf.now,
                                !.session.status = "completed",
                                !.pc = "returned"]
    /\ UNCHANGED not_tf_vars

\* datetime.utcnow() advances
SessionTimePasses ==
    /\ tf.now < MaxSessionTime
    /\ tf' = [tf EXCEPT !.now = @ + 1]
    /\ UNCHANGED not_tf_vars

TFNext ==
    \/ ValidateAgentStart
    \/ ValidateDomain
    \/ CalculateMetrics
    \/ CalculateTrustScore
    \/ AssignAndComplete
    \/ SessionTimePasses

\* ========================================================================
\* Part XII : BaseSyntheticDataConnector.generate_and_wait
\*            (gatf/synthetic_data/connectors/base_connector.py)
\* ========================================================================

\* GenerationStatus, lines 40-46
GenerationStatus == {"pending", "running", "completed", "failed", "cancelled"}

\* line 336: get_job_status of the platform; a job does not go back to
\* pending or running once it has ended
JobStatusAfter(status) ==
    IF status \in {"pending", "running"}
    THEN GenerationStatus \ {"pending"}
    ELSE {status}

\* lines 312-320: generate_data returns a response in any status, with or
\* without a job id; a completed one is returned at once, otherwise the
\* clock is read
GenerateData ==
    /\ gen.pc = "start"
    /\ \E status \in GenerationStatus, job_id \in BOOLEAN :
          gen' = [gen EXCEPT !.status = status, !.job_id = job_id,
                             !.start_time = gen.now,
                             !.pc = IF status = "completed" THEN "done"
                                    ELSE "while",
                             !.outcome = IF status = "completed"
                                         THEN "returned" ELSE "none"]
    /\ UNCHANGED not_gen_vars

\* lines 322-330: the loop test and the timeout test; on timeout the job is
\* cancelled if there is a job id and DataGenerationError is raised
WhileTest ==
    /\ gen.pc = "while"
    /\ gen.status \in {"pending", "running"}
    /\ gen' = IF gen.now - gen.start_time > gen.max_wait
              THEN [gen EXCEPT !.cancelled = gen.job_id, !.pc = "done",
                               !.outcome = "timeout"]
              ELSE [gen EXCEPT !.pc = "sleep"]
    /\ UNCHANGED not_gen_vars

\* line 333: asyncio.sleep(poll_interval)
Sleep ==
    /\ gen.pc = "sleep"
    /\ gen' = [gen EXCEPT !.now = @ + gen.poll_interval, !.pc = "poll"]
    /\ UNCHANGED not_gen_vars

\* lines 336-344: with a job id the status is polled (and the data fetched
\* when it is completed), which takes some time; without one nothing is done
PollStatus ==
    /\ gen.pc = "poll"
    /\ \/ /\ gen.job_id
          /\ \E status \in JobStatusAfter(gen.status), took \in 0..1 :
                gen' = [gen EXCEPT !.status = status, !.polls = @ + 1,
                                   !.last_poll = gen.now - gen.start_time,
                                   !.now = @ + took, !.pc = "while"]
       \/ /\ ~gen.job_id
          /\ gen' = [gen EXCEPT !.pc = "while"]
    /\ UNCHANGED not_gen_vars

\* lines 346-351: after the loop a failed status raises DataGenerationError;
\* any other status returns the response
AfterLoop ==
    /\ gen.pc = "while"
    /\ gen.status \notin {"pending", "running"}
    /\ gen' = [gen EXCEPT !.pc = "done",
                          !.outcome = IF gen.status = "failed" THEN "failed"
                                      ELSE "returned"]
    /\ UNCHANGED not_gen_vars

GENNext ==
    \/ GenerateData
    \/ WhileTest
    \/ Sleep
    \/ PollStatus
    \/ AfterLoop

\* ========================================================================
\* Part XIII : BaseSyntheticDataConnector.batch_generate
\*             (gatf/synthetic_data/connectors/base_connector.py)
\* ========================================================================

\* the positions of the requests in the list
Requests(b) == 1..b.n

\* the generate_with_semaphore coroutines inside 'async with semaphore'
InProgress(b) == {i \in Requests(b) : b.pc[i] = "running"}

\* asyncio.Semaphore.acquire does not block: the counter is positive
SemaphoreFree_Always(b) == TRUE

SemaphoreFree(b) == b.semaphore > 0

\* line 372, 'async with semaphore': a coroutine enters when the semaphore
\* is free, takes one unit and calls generate_and_wait (line 374)
SemaphoreAcquire ==
    /\ ~batch.returned
    /\ \E i \in Requests(batch) :
          /\ batch.pc[i] = "waiting"
          /\ SemaphoreFree(batch)
          /\ batch' = [batch EXCEPT
                         !.pc[i] = "running",
                         !.semaphore = @ - 1,
                         !.peak = IF Cardinality(InProgress(batch)) + 1 > @
                                  THEN Cardinality(InProgress(batch)) + 1
                                  ELSE @]
    /\ UNCHANGED not_batch_vars

\* lines 373-381: generate_and_wait returns its response, or raises and the
\* except clause builds a failed response for the request; leaving the
\* 'async with' gives the unit back
GenerateAndWaitEnds ==
    /\ \E i \in Requests(batch),
          outcome \in {"completed", "cancelled", "raised"} :
          /\ batch.pc[i] = "running"
          /\ batch' = [batch EXCEPT
                         !.pc[i] = "done",
                         !.semaphore = @ + 1,
                         !.raised[i] = (outcome = "raised"),
                         !.result[i] =
                             [request_id |-> i,
                              status |-> IF outcome = "raised" THEN "failed"
                                         ELSE outcome]]
    /\ UNCHANGED not_batch_vars

\* line 384: gather returns the results of the coroutines in the order of
\* the requests once all of them are done
GatherReturns ==
    /\ ~batch.returned
    /\ \A i \in Requests(batch) : batch.pc[i] = "done"
    /\ batch' = [batch EXCEPT
                   !.returned = TRUE,
                   !.responses = [i \in Requests(batch) |-> batch.result[i]]]
    /\ UNCHANGED not_batch_vars

BATCHNext ==
    \/ SemaphoreAcquire
    \/ GenerateAndWaitEnds
    \/ GatherReturns

\* ========================================================================
\* Part XIV : DomainRegistry (gatf/domains/__init__.py)
\* ========================================================================

\* the domain types, and the classes that implement a domain type: the one
\* found in the package by discover_domains and two supplied by callers
DomainTypes == {"finance", "legal"}

DomainClasses == {"builtin", "v1", "v2"}

\* dictionaries over the domain types; "None" stands for a missing key
EmptyDict == [t \in DomainTypes |-> "None"]

\* lines 194-256, discover_domains: the classes found in the package are
\* registered without override
Discover(domains, found) ==
    [t \in DomainTypes |->
        IF t \in found /\ domains[t] = "None" THEN "builtin" ELSE domains[t]]

\* lines 42-99, register: a duplicate without override raises
\* DomainRegistrationError, otherwise the class is stored under its type
Register ==
    /\ reg.calls < MaxRegistryCalls
    /\ \E t \in DomainTypes, c \in DomainClasses \ {"builtin"},
          override \in BOOLEAN :
          IF reg.domains[t] /= "None" /\ ~override
          THEN reg' = [reg EXCEPT !.calls = @ + 1,
                                  !.raised = "DomainRegistrationError",
                                  !.returned = "None"]
          ELSE reg' = [reg EXCEPT !.calls = @ + 1, !.raised = "None",
                                  !.returned = "None", !.domains[t] = c]
    /\ UNCHANGED not_reg_vars

\* lines 101-112, unregister: the class and the cached instance are removed
Unregister ==
    /\ reg.calls < MaxRegistryCalls
    /\ \E t \in DomainTypes :
          reg' = [reg EXCEPT
                    !.calls = @ + 1, !.raised = "None", !.returned = "None",
                    !.domains[t] = "None",
                    !.instances[t] = IF reg.domains[t] /= "None" THEN "None"
                                     ELSE @]
    /\ UNCHANGED not_reg_vars

\* lines 114-167, get: discovery on an empty registry, DomainNotFoundError
\* for an unknown type, the cached instance unless force_new, otherwise a
\* new instance of the registered class, cached unless force_new
RegistryGet ==
    /\ reg.calls < MaxRegistryCalls
    /\ \E t \in DomainTypes, force_new \in BOOLEAN,
          found \in SUBSET DomainTypes :
          LET domains == IF reg.domains = EmptyDict
                         THEN Discover(reg.domains, found)
                         ELSE reg.domains
              r == [reg EXCEPT !.calls = @ + 1, !.domains = domains,
                               !.asked = t]
          IN IF domains[t] = "None"
             THEN reg' = [r EXCEPT !.raised = "DomainNotFoundError",
                                   !.returned = "None"]
             ELSE IF ~force_new /\ reg.instances[t] /= "None"
             THEN reg' = [r EXCEPT !.raised = "None",
                                   !.returned = reg.instances[t]]
             ELSE reg' = [r EXCEPT
                            !.raised = "None",
                            !.returned = domains[t],
                            !.instances[t] = IF force_new THEN @
                                             ELSE domains[t]]
    /\ UNCHANGED not_reg_vars

\* lines 277-280, clear_cache
ClearCache ==
    /\ reg.calls < MaxRegistryCalls
    /\ reg' = [reg EXCEPT !.calls = @ + 1, !.raised = "None",
                          !.returned = "None", !.instances = EmptyDict]
    /\ UNCHANGED not_reg_vars

REGNext ==
    \/ Register
    \/ Unregister
    \/ RegistryGet
    \/ ClearCache

\* ========================================================================
\* Part XV : CacheManager with the HYBRID backend (gatf/utils/caching.py)
\* ========================================================================

HybridKeys == {"a", "b"}

\* a key that is in neither dictionary
Missing == [value |-> 0, created_at |-> 0, ttl |-> Absent]

\* CacheEntry.is_expired, lines 44-49: an entry without ttl never expires
EntryExpired(entry, now) ==
    IF entry.ttl = Absent THEN FALSE
    ELSE now - entry.created_at > entry.ttl

\* MemoryCache.set, lines 102-117: when the cache is full and the key is new
\* an entry is evicted first; the entry is stamped with the time and the ttl
MemoryCacheSet(memory, key, value, ttl, now) ==
    LET held == {k \in HybridKeys : memory[k] /= Missing}
        evicted == IF Cardinality(held) >= MaxMemoryEntries /\ key \notin held
                   THEN [memory EXCEPT ![CHOOSE k \in held : TRUE] = Missing]
                   ELSE memory
    IN [evicted EXCEPT
          ![key] = [value |-> value, created_at |-> now, ttl |-> ttl]]

\* RedisCache.get, lines 206-217: redis returns nothing for a key whose
\* SETEX time has run out
RedisCacheGet(redis, key, now) ==
    IF redis[key] /= Missing /\ now - redis[key].created_at < redis[key].ttl
    THEN redis[key].value
    ELSE 0

\* the ttl MemoryCache.set is given when get repopulates the memory cache
\* (line 306 passes none)
RepopulateTtl(redis, key) == Absent

\* CacheManager.set, lines 318-321: the value is written to both caches
\* with the ttl
HybridSet ==
    /\ hyb.n_sets < MaxHybridSets
    /\ \E key \in HybridKeys, ttl \in 1..MaxTtl :
          LET value == hyb.n_sets + 1
          IN hyb' = [hyb EXCEPT
                       !.n_sets = value,
                       !.sets = Append(@, [key |-> key, at |-> hyb.now,
                                           ttl |-> ttl]),
                       !.memory = MemoryCacheSet(@, key, value, ttl, hyb.now),
                       !.redis[key] = [value |-> value,
                                       created_at |-> hyb.now, ttl |-> ttl],
                       !.got = 0]
    /\ UNCHANGED not_hyb_vars

\* CacheManager.get, lines 297-308, with MemoryCache.get, lines 79-100: an
\* unexpired memory entry is returned (an expired one is dropped); otherwise
\* redis is asked and a hit is written to the memory cache
HybridGet ==
    /\ \E key \in HybridKeys :
          LET entry == hyb.memory[key]
              hit == entry /= Missing /\ ~EntryExpired(entry, hyb.now)
              dropped == [hyb.memory EXCEPT ![key] = Missing]
              value == RedisCacheGet(hyb.redis, key, hyb.now)
          IN hyb' = IF hit
                    THEN [hyb EXCEPT !.got = entry.value]
                    ELSE IF value /= 0
                    THEN [hyb EXCEPT
                            !.got = value,
                            !.memory =
                               MemoryCacheSet(dropped, key, value,
                                              RepopulateTtl(hyb.redis, key),
                                              hyb.now)]
                    ELSE [hyb EXCEPT !.got = 0, !.memory = dropped]
    /\ UNCHANGED not_hyb_vars

\* MemoryCache.clear, lines 127-130, on the memory cache of the manager
MemoryCacheClear ==
    /\ hyb.memory /= [k \in HybridKeys |-> Missing]
    /\ hyb' = [hyb EXCEPT !.memory = [k \in HybridKeys |-> Missing],
                          !.got = 0]
    /\ UNCHANGED not_hyb_vars

\* time.time() advances by a second
HybridTimePasses ==
    /\ hyb.now < MaxHybridNow
    /\ hyb' = [hyb EXCEPT !.now = @ + 1, !.got = 0]
    /\ UNCHANGED not_hyb_vars

HYBNext ==
    \/ HybridSet
    \/ HybridGet
    \/ MemoryCacheClear
    \/ HybridTimePasses

\* ========================================================================
\* Specifications
\* ========================================================================

vars == <<vo_vars, vos_vars, rest_vars>>

\* no validation pipeline is running
VOOff ==
    /\ ctx_tasks = <<>>
    /\ parallel_stages = {}
    /\ max_workers = 1
    /\ completed_tasks = {}
    /\ ready_tasks = <<>>
    /\ ri = 1
    /\ futures_to_tasks = {}
    /\ fut = <<>>
    /\ work_queue = <<>>
    /\ vo_pc = "off"
    /\ clock = 1

\* no VOS orchestrator exists
VOSOff ==
    /\ plan = [id |-> PlanId, mode |-> "sequential", primitives |-> <<>>,
               dependencies |-> <<>>,
               retry_policy |-> [enabled |-> FALSE, max_retries |-> Absent],
               timeout_ms |-> Absent]
    /\ active_plans = {}
    /\ execution_history = <<>>
    /\ event_queue = <<>>
    /\ executions = 0
    /\ vos_pc = "off"
    /\ result = OrchestrationResult(0)
    /\ executed = {}
    /\ pending = {}
    /\ aio_tasks = <<>>
    /\ ai = 1
    /\ retry_i = 0
    /\ started = <<>>
    /\ outcomes = <<>>

\* no VOS orchestrator is constructed
EVOff ==
    /\ initialized = FALSE
    /\ running = FALSE
    /\ components = FALSE
    /\ ev_queue = <<>>
    /\ handlers = <<>>
    /\ loops = <<>>
    /\ callers = [init_await |-> 0, shut_await |-> 0]
    /\ emitted = 0

\* no primitive is executing
PROff ==
    /\ members = <<>>
    /\ pr_i = 1
    /\ pr_results = <<>>
    /\ pr_errors = <<>>
    /\ pr_pc = "off"
    /\ pr_out = "None"

\* no memory cache is constructed
MCOff ==
    /\ mc_cache = <<>>
    /\ mc_policy = "lru"
    /\ mc_max_size = 1
    /\ mc_lock = 0
    /\ mc_pending = <<>>
    /\ mc_recency = <<>>
    /\ mc_inserted = <<>>
    /\ mc_last_evict = NoEvict
    /\ mc_scn = 0

\* no validate call is made
VLOff ==
    /\ vl_cache_enabled = FALSE
    /\ vl_max_size = 1
    /\ vl_cache = <<>>
    /\ vl_ctx = <<>>
    /\ vl_call = "None"
    /\ vl_pc = "off"
    /\ vl_tasks = 0
    /\ vl_out = "None"

\* no rate limiter is constructed
RLOff ==
    /\ rl_strict = FALSE
    /\ rl_tokens = 0
    /\ rl_last_refill = 0
    /\ rl_now = 0
    /\ rl_log = <<>>
    /\ rl_pc = "off"

\* no shared-store limiter is constructed
RRLOff ==
    rrl = "off"

\* no function is decorated with rate_limit
DECOOff ==
    deco = "off"

\* no badges are being assigned
BADGEOff ==
    badge = "off"

\* validate_agent is not in use
TFOff ==
    tf = "off"

\* generate_and_wait is not in use
GENOff ==
    gen = "off"

\* batch_generate is not in use
BATCHOff ==
    batch = "off"

\* the domain registry is not in use
REGOff ==
    reg = "off"

\* the hybrid cache is not in use
HYBOff ==
    hyb = "off"

\* the parts other than I and II are idle
RestOff == EVOff /\ PROff /\ MCOff /\ VLOff /\ RLOff /\ RRLOff /\ DECOOff /\ BADGEOff /\ TFOff /\ GENOff /\ BATCHOff /\ REGOff /\ HYBOff

\* _execute_tasks is entered with the tasks of a pipeline or of a hand-built
\* graph, all pending (lines 403-410); no VOS orchestrator exists.  The
\* hand-built graphs of a parallel stage have validators that retry; those
\* of a sequential stage also come without a validator and without retries.
VOInit ==
    /\ \E mw \in 1..MaxWorkers :
         max_workers = mw
    /\ \/ \E p \in Pipelines, has_domain \in BOOLEAN :
            /\ ctx_tasks = CreatePipelineTasks(p.stages, p.skipped,
                                               has_domain, 1, <<>>)
            /\ parallel_stages = p.parallel_stages
       \/ \E n \in 1..MaxGraphTasks :
            \E deps \in GraphDeps(n),
               stage \in {"initialization", "domain_validation"},
               has_func \in BOOLEAN,
               mr \in {0, DefaultTaskMaxRetries} :
                 /\ (~has_func => mr = DefaultTaskMaxRetries)
                 /\ (stage = "domain_validation"
                        => has_func /\ mr = DefaultTaskMaxRetries)
                 /\ ctx_tasks = GraphTasks(n, deps, stage, has_func, mr)
                 /\ parallel_stages = DefaultParallelStages
    /\ completed_tasks = {}
    /\ ready_tasks = <<>>
    /\ ri = 1
    /\ futures_to_tasks = {}
    /\ fut = [t \in DOMAIN ctx_tasks |-> "none"]
    /\ work_queue = <<>>
    /\ vo_pc = "loop"
    /\ clock = 1
    /\ VOSOff
    /\ RestOff

\* after create_plan: the plan is active and plan_created is on the queue;
\* no validation pipeline is running
VOSInit ==
    /\ plan \in Plans
    /\ active_plans = {PlanId}
    /\ execution_history = <<>>
    /\ event_queue = <<PlanCreatedEvent(plan)>>
    /\ executions = 0
    /\ vos_pc = "idle"
    /\ result = OrchestrationResult(Len(plan.primitives))
    /\ executed = {}
    /\ pending = {}
    /\ aio_tasks = <<>>
    /\ ai = 1
    /\ retry_i = 0
    /\ started = [p \in 1..Len(plan.primitives) |-> 0]
    /\ outcomes = [p \in 1..Len(plan.primitives) |-> <<>>]
    /\ VOOff
    /\ RestOff

SpecVO == VOInit /\ [][VONext]_vars

\* The scheduling thread runs, the pool workers run, and every validator
\* call returns or raises.
FairSpecVO == SpecVO /\ WF_vars(VONext)

SpecVOS == VOSInit /\ [][VOSNext]_vars

\* The event loop runs every runnable coroutine, and every execute call
\* returns or is cancelled by its timeout.  Whether the caller calls
\* execute_plan at all is up to the caller.
FairSpecVOS == SpecVOS /\ WF_vars(VOSRun)

\* VOSOrchestrator.__init__ (lines 76-99) followed by the handler
\* registrations (lines 422-426); no pipeline and no plan is running
EVInit ==
    /\ initialized = FALSE
    /\ running = FALSE
    /\ components = FALSE
    /\ ev_queue = <<>>
    /\ handlers \in [{"plan_completed"} -> HandlerLists(MaxHandlers)]
    /\ loops = <<>>
    /\ callers = [init_await |-> 0, shut_await |-> 0]
    /\ emitted = 0
    /\ VOOff
    /\ VOSOff
    /\ PROff
    /\ MCOff
    /\ VLOff
    /\ RLOff
    /\ RRLOff
    /\ DECOOff
    /\ BADGEOff
    /\ TFOff
    /\ GENOff
    /\ BATCHOff
    /\ REGOff
    /\ HYBOff

SpecEV == EVInit /\ [][EVNext]_vars

\* what the event loop runs without the caller: the _process_events tasks
\* and the calls suspended in gather
EVRun ==
    \/ InitializeResume
    \/ ShutdownResume
    \/ LoopStart
    \/ LoopGet
    \/ LoopTimeout
    \/ LoopHandlerDone

\* The event loop runs every runnable coroutine and every awaited handler
\* and component call ends.  Whether initialize, shutdown or _emit_event are
\* called is up to the caller.
FairSpecEV == SpecEV /\ WF_vars(EVRun)

\* ComposedPrimitive.execute is entered (lines 123-128) on a composed
\* primitive of at most MaxMembers members
PRInit ==
    /\ \E n \in 0..MaxMembers : members \in MemberLists(n)
    /\ pr_i = 1
    /\ pr_results = <<>>
    /\ pr_errors = <<>>
    /\ pr_pc = "running"
    /\ pr_out = "None"
    /\ VOOff
    /\ VOSOff
    /\ EVOff
    /\ MCOff
    /\ VLOff
    /\ RLOff
    /\ RRLOff
    /\ DECOOff
    /\ BADGEOff
    /\ TFOff
    /\ GENOff
    /\ BATCHOff
    /\ REGOff
    /\ HYBOff

SpecPR == PRInit /\ [][PRNext]_vars

\* MemoryCache.__init__ (lines 59-77) with max_size of at least 1 and one
\* of the three eviction policies
MCInit ==
    /\ mc_cache = <<>>
    /\ mc_policy \in EvictionPolicy
    /\ mc_max_size \in 1..MaxCacheSize
    /\ mc_lock = 0
    /\ mc_pending = [t \in Threads |-> NoOp]
    /\ mc_recency = <<>>
    /\ mc_inserted = <<>>
    /\ mc_last_evict = NoEvict
    /\ mc_scn = 0
    /\ VOOff
    /\ VOSOff
    /\ EVOff
    /\ PROff
    /\ VLOff
    /\ RLOff
    /\ RRLOff
    /\ DECOOff
    /\ BADGEOff
    /\ TFOff
    /\ GENOff
    /\ BATCHOff
    /\ REGOff
    /\ HYBOff

SpecMC == MCInit /\ [][MCNext]_vars

\* ValidationOrchestrator.__init__ (lines 154-183) with caching on or off;
\* no call has been made
VLInit ==
    /\ vl_cache_enabled \in BOOLEAN
    /\ vl_max_size \in 1..MaxCacheSize
    /\ vl_cache = <<>>
    /\ vl_ctx = <<>>
    /\ vl_call = NoCall
    /\ vl_pc = "idle"
    /\ vl_tasks = 0
    /\ vl_out = NoOutcome
    /\ VOOff
    /\ VOSOff
    /\ EVOff
    /\ PROff
    /\ MCOff
    /\ RLOff
    /\ RRLOff
    /\ DECOOff
    /\ BADGEOff
    /\ TFOff
    /\ GENOff
    /\ BATCHOff
    /\ REGOff
    /\ HYBOff

SpecVL == VLInit /\ [][VLNext]_vars

\* RateLimiter(RateLimitConfig(max_requests=5, time_window=1)), lines
\* 227-245 and 47-61: a full bucket, strict or not
RLInit ==
    /\ rl_strict \in BOOLEAN
    /\ rl_tokens = Capacity
    /\ rl_last_refill = 0
    /\ rl_now = 0
    /\ rl_log = <<>>
    /\ rl_pc = "on"
    /\ VOOff
    /\ VOSOff
    /\ EVOff
    /\ PROff
    /\ MCOff
    /\ VLOff
    /\ RRLOff
    /\ DECOOff
    /\ BADGEOff
    /\ TFOff
    /\ GENOff
    /\ BATCHOff
    /\ REGOff
    /\ HYBOff

SpecRL == RLInit /\ [][RLNext]_vars

\* RedisRateLimiter.__init__ (lines 309-325) on an empty store, with a
\* sliding-window or fixed-window configuration
RRLInit ==
    /\ \E a \in {"sliding_window", "fixed_window"}, m \in 1..MaxLimit :
         rrl = [algorithm |-> a, max_requests |-> m, now |-> 0,
                zset |-> {},
                counters |-> [w \in 0..WindowId(MaxTicks) |-> 0],
                procs |-> [p \in Processes |-> IdleProcess],
                calls |-> 0,
                admitted |-> [t \in 0..MaxTicks |-> 0]]
    /\ VOOff
    /\ VOSOff
    /\ EVOff
    /\ PROff
    /\ MCOff
    /\ VLOff
    /\ RLOff
    /\ DECOOff
    /\ BADGEOff
    /\ TFOff
    /\ GENOff
    /\ BATCHOff
    /\ REGOff
    /\ HYBOff

SpecRRL == RRLInit /\ [][RRLNext]_vars

\* rate_limit(...) has decorated a function (lines 492-496): no limiter yet
DECOInit ==
    /\ deco = [limiters |-> [k \in LimiterKeys |-> 0],
               threads |-> [t \in CallerThreads |-> IdleThread],
               calls |-> 0,
               n_created |-> 0,
               created |-> [k \in LimiterKeys |-> 0],
               consumed |-> [k \in LimiterKeys |-> {}]]
    /\ VOOff
    /\ VOSOff
    /\ EVOff
    /\ PROff
    /\ MCOff
    /\ VLOff
    /\ RLOff
    /\ RRLOff
    /\ BADGEOff
    /\ TFOff
    /\ GENOff
    /\ BATCHOff
    /\ REGOff
    /\ HYBOff

SpecDECO == DECOInit /\ [][DECONext]_vars

\* _assign_badges is about to be called on one of the inputs
BADGEInit ==
    /\ \E in \in BadgeInputs : badge = [in |-> in, badges |-> "None"]
    /\ VOOff
    /\ VOSOff
    /\ EVOff
    /\ PROff
    /\ MCOff
    /\ VLOff
    /\ RLOff
    /\ RRLOff
    /\ DECOOff
    /\ TFOff
    /\ GENOff
    /\ BATCHOff
    /\ REGOff
    /\ HYBOff

SpecBADGE == BADGEInit /\ [][BADGENext]_vars

\* a session has been created and validate_agent has not been called yet
TFInit ==
    /\ tf = [session |-> NewSession, pc |-> "idle", validation_domains |-> 0,
             domain |-> 0, all_results |-> <<>>, error |-> "None",
             calls |-> 0, now |-> 0]
    /\ VOOff
    /\ VOSOff
    /\ EVOff
    /\ PROff
    /\ MCOff
    /\ VLOff
    /\ RLOff
    /\ RRLOff
    /\ DECOOff
    /\ BADGEOff
    /\ GENOff
    /\ BATCHOff
    /\ REGOff
    /\ HYBOff

SpecTF == TFInit /\ [][TFNext]_vars

\* generate_and_wait is called with a poll interval and a maximum wait
GENInit ==
    /\ \E poll_interval \in 1..MaxPollInterval, max_wait \in 1..MaxWaitTime :
          gen = [poll_interval |-> poll_interval, max_wait |-> max_wait,
                 status |-> "none", job_id |-> FALSE, pc |-> "start",
                 outcome |-> "none", cancelled |-> FALSE, now |-> 0,
                 start_time |-> 0, polls |-> 0, last_poll |-> 0]
    /\ VOOff
    /\ VOSOff
    /\ EVOff
    /\ PROff
    /\ MCOff
    /\ VLOff
    /\ RLOff
    /\ RRLOff
    /\ DECOOff
    /\ BADGEOff
    /\ TFOff
    /\ BATCHOff
    /\ REGOff
    /\ HYBOff

SpecGEN == GENInit /\ [][GENNext]_vars

\* batch_generate has created the semaphore and the coroutines (lines 369,
\* 383)
BATCHInit ==
    /\ \E n \in 1..MaxRequestsInBatch, max_concurrent \in 1..MaxConcurrent :
          batch = [n |-> n, max_concurrent |-> max_concurrent,
                   semaphore |-> max_concurrent,
                   pc |-> [i \in 1..n |-> "waiting"],
                   raised |-> [i \in 1..n |-> FALSE],
                   result |-> [i \in 1..n |-> "None"],
                   peak |-> 0, returned |-> FALSE, responses |-> <<>>]
    /\ VOOff
    /\ VOSOff
    /\ EVOff
    /\ PROff
    /\ MCOff
    /\ VLOff
    /\ RLOff
    /\ RRLOff
    /\ DECOOff
    /\ BADGEOff
    /\ TFOff
    /\ GENOff
    /\ REGOff
    /\ HYBOff

SpecBATCH == BATCHInit /\ [][BATCHNext]_vars

\* DomainRegistry.__init__, lines 36-40
REGInit ==
    /\ reg = [domains |-> EmptyDict, instances |-> EmptyDict,
              asked |-> "None", returned |-> "None", raised |-> "None",
              calls |-> 0]
    /\ VOOff
    /\ VOSOff
    /\ EVOff
    /\ PROff
    /\ MCOff
    /\ VLOff
    /\ RLOff
    /\ RRLOff
    /\ DECOOff
    /\ BADGEOff
    /\ TFOff
    /\ GENOff
    /\ BATCHOff
    /\ HYBOff

SpecREG == REGInit /\ [][REGNext]_vars

\* CacheManager(backend=HYBRID), lines 270-286: both caches are empty
HYBInit ==
    /\ hyb = [memory |-> [k \in HybridKeys |-> Missing],
              redis |-> [k \in HybridKeys |-> Missing],
              now |-> 0, sets |-> <<>>, n_sets |-> 0, got |-> 0]
    /\ VOOff
    /\ VOSOff
    /\ EVOff
    /\ PROff
    /\ MCOff
    /\ VLOff
    /\ RLOff
    /\ RRLOff
    /\ DECOOff
    /\ BADGEOff
    /\ TFOff
    /\ GENOff
    /\ BATCHOff
    /\ REGOff

SpecHYB == HYBInit /\ [][HYBNext]_vars

\* ------------------------------------------------------------------------
\* Properties of the ValidationOrchestrator scheduler
\* ------------------------------------------------------------------------

\* C1: a task that has started has every task of its dependency set ended,
\* and its start_time is not before the end_time of any of them; the
\* metric_calculation task is the instance with the domain_validation and
\* quality_validation tasks as its dependency set.
C1_StartAfterDependenciesEnd ==
    \A t \in DOMAIN ctx_tasks :
        ctx_tasks[t].start_time > 0 =>
            \A d \in ctx_tasks[t].dependencies :
                /\ ctx_tasks[d].end_time > 0
                /\ ctx_tasks[t].start_time >= ctx_tasks[d].end_time

\* the metric task has started after its two dependencies ran in the pool
C1_Witness ==
    \E t \in DOMAIN ctx_tasks :
        /\ ctx_tasks[t].stage = "metric_calculation"
        /\ ctx_tasks[t].start_time > 0
        /\ Cardinality(ctx_tasks[t].dependencies) = 2
        /\ \A d \in ctx_tasks[t].dependencies :
              /\ fut[d] = "done"
              /\ ctx_tasks[d].stage \in {"domain_validation", "quality_validation"}

\* C2: when the task graph has a dependency cycle, _execute_tasks ends by
\* raising the dependency error (it neither returns nor runs forever).
C2_CycleRaisesDependencyError ==
    HasCycle(ctx_tasks) => <>(vo_pc = "raised_DependencyError")

\* a cyclic graph whose acyclic part was executed before the raise
C2_Witness ==
    /\ HasCycle(ctx_tasks)
    /\ vo_pc = "raised_DependencyError"
    /\ completed_tasks # {}

\* C3 (as claimed): when _execute_tasks returns, every increment of
\* retry_count was followed by another execution of the task, and a task
\* with a validator ended completed or with its retries used up.
C3_RaisingTaskIsRetried ==
    vo_pc = "returned" =>
        \A t \in DOMAIN ctx_tasks :
            /\ ctx_tasks[t].runs = ctx_tasks[t].retry_count + 1
            /\ ctx_tasks[t].has_func =>
                  \/ ctx_tasks[t].status = "completed"
                  \/ ctx_tasks[t].retry_count = ctx_tasks[t].max_retries

\* ------------------------------------------------------------------------
\* Properties of VOSOrchestrator.execute_plan
\* ------------------------------------------------------------------------

\* execute_plan has ended: it returned its result or it raised
ExecutePlanEnded == vos_pc \in {"returned", "raised"}

CircularError == "Circular dependency detected in orchestration plan"

InErrors(error) == \E k \in 1..Len(result.errors) : result.errors[k] = error

\* C4: in adaptive mode, whenever an execute call of a primitive has been
\* started, every primitive of its declared dependency list has finished an
\* execute call, and none of them is executing while the primitive is.
C4_StartedAfterDependenciesFinished ==
    plan.mode = "adaptive" =>
        \A p \in DOMAIN started :
            started[p] > 0 =>
                \A d \in plan.dependencies[p] :
                    /\ d \in DOMAIN outcomes
                    /\ Len(outcomes[d]) >= 1
                    /\ started[p] > Len(outcomes[p]) =>
                          started[d] = Len(outcomes[d])

\* a primitive with two dependencies is executing, one of which was retried
C4_Witness ==
    /\ plan.mode = "adaptive"
    /\ \E p \in DOMAIN started :
          /\ Cardinality(plan.dependencies[p]) = 2
          /\ started[p] > Len(outcomes[p])
          /\ \E d \in plan.dependencies[p] : Len(outcomes[d]) >= 2

\* C5 (as claimed): an adaptive plan whose dependency map is cyclic makes
\* execute_plan end by raising to its caller.
C5_CycleRaisesToCaller ==
    (/\ plan.mode = "adaptive"
     /\ PlanHasCycle(plan.dependencies)
     /\ ExecutePlanEnded)
        => vos_pc = "raised"

\* C5 (amended): executing an adaptive plan whose dependency map is cyclic
\* always ends with execute_plan returning a result of status failed that
\* carries the circular-dependency error.
C5_CycleReturnsFailedResult ==
    (/\ plan.mode = "adaptive"
     /\ PlanHasCycle(plan.dependencies)
     /\ vos_pc = "adapt_loop")
        ~> (/\ vos_pc = "returned"
            /\ result.status = "failed"
            /\ InErrors(CircularError))

\* a cyclic plan whose acyclic part was executed before the abort
C5_Witness ==
    /\ plan.mode = "adaptive"
    /\ PlanHasCycle(plan.dependencies)
    /\ vos_pc = "returned"
    /\ result.status = "failed"
    /\ InErrors(CircularError)
    /\ executed # {}

PlanCompletedCount ==
    Cardinality({k \in 1..Len(event_queue) :
                    event_queue[k].type = "plan_completed"})

\* C6: when a call of execute_plan has ended, in any mode and whatever the
\* strategy did, the result has its end time, the history has exactly one
\* entry per call with the newest being this result, the plan is not in the
\* active set, and the queue holds one plan_completed event per call, the
\* newest carrying this result's status and a duration; while a call is in
\* progress the entry and the event of that call are not there yet.
C6_ExecutePlanAlwaysFinalizes ==
    /\ ExecutePlanEnded =>
          /\ vos_pc = "returned"
          /\ result.end_time
          /\ Len(execution_history) = executions
          /\ execution_history[executions] = HistoryEntry(result)
          /\ plan.id \notin active_plans
          /\ PlanCompletedCount = executions
          /\ event_queue[Len(event_queue)] =
                [type |-> "plan_completed", plan_id |-> plan.id,
                 status |-> result.status, has_duration |-> TRUE]
    /\ vos_pc \notin {"off", "idle", "returned", "raised"} =>
          /\ Len(execution_history) = executions - 1
          /\ PlanCompletedCount = executions - 1

\* the second call on the plan, which is no longer active, ended failed
C6_Witness ==
    /\ vos_pc = "returned"
    /\ executions = 2
    /\ result.status = "failed"
    /\ execution_history[1].status = "completed"

\* C7 (as claimed): a sequential plan with a failed primitive makes
\* execute_plan end by raising to its caller.
C7_FailureRaisesOutOfExecutePlan ==
    (/\ plan.mode = "sequential"
     /\ ExecutePlanEnded
     /\ \E p \in DOMAIN outcomes : outcomes[p] = <<"failed">>)
        => vos_pc = "raised"

\* C7 (amended): in sequential mode each primitive is executed at most
\* once, and only after every primitive before it in the plan has returned
\* a completed result; when a primitive has failed, execute_plan returns
\* (it does not raise) a result of status failed that carries the error and
\* the failed primitive's result, and otherwise a completed result.
C7_SequentialAbortsAndReturnsFailed ==
    plan.mode = "sequential" =>
        /\ vos_pc # "raised"
        /\ \A i \in 1..Len(plan.primitives) :
              /\ started[plan.primitives[i]] <= 1
              /\ started[plan.primitives[i]] = 1 =>
                    \A j \in 1..(i - 1) :
                        outcomes[plan.primitives[j]] = <<"completed">>
        /\ vos_pc = "returned" =>
              IF \E p \in DOMAIN outcomes : outcomes[p] = <<"failed">>
              THEN /\ result.status = "failed"
                   /\ InErrors("Primitive failed")
                   /\ \A p \in DOMAIN outcomes :
                         outcomes[p] = <<"failed">> =>
                            result.primitive_results[p].status = "failed"
              ELSE /\ result.status = "completed"
                   /\ \A p \in DOMAIN outcomes : outcomes[p] = <<"completed">>

\* the second of three primitives failed and the third was never executed
C7_Witness ==
    /\ plan.mode = "sequential"
    /\ vos_pc = "returned"
    /\ Len(plan.primitives) = 3
    /\ outcomes[1] = <<"completed">>
    /\ outcomes[2] = <<"failed">>
    /\ started[3] = 0
    /\ result.status = "failed"

\* C8 (as claimed): an adaptive plan whose dependency map has no cycle is
\* never aborted: every primitive is executed, has a result recorded, and
\* the plan is reported completed.
C8_AbortsOnlyOnCycle ==
    (/\ plan.mode = "adaptive"
     /\ ExecutePlanEnded
     /\ ~PlanHasCycle(plan.dependencies))
        => /\ result.status = "completed"
           /\ \A p \in DOMAIN started :
                 /\ started[p] >= 1
                 /\ result.primitive_results[p] # NoResult

\* the attempts of a primitive that the retry policy allows
AttemptsAllowed == 1 + RetryCount(plan.retry_policy)

\* C9 (as claimed): with retries enabled, a primitive is executed at most
\* 1 + max_retries times, every attempt before the last one failed, and the
\* recorded result is the result of the last attempt, completed or failed.
C9_RecordsLastAttempt ==
    (/\ plan.mode = "adaptive"
     /\ plan.retry_policy.enabled
     /\ vos_pc = "returned")
        => \A p \in DOMAIN outcomes :
              Len(outcomes[p]) >= 1 =>
                 /\ Len(outcomes[p]) <= AttemptsAllowed
                 /\ \A k \in 1..(Len(outcomes[p]) - 1) :
                       outcomes[p][k] = "failed"
                 /\ result.primitive_results[p] =
                       PrimitiveResult(outcomes[p][Len(outcomes[p])], Absent,
                                       Len(outcomes[p]))

\* C9 (amended): with retries enabled, a primitive is executed at most
\* 1 + max_retries times and every attempt before the last one failed; if
\* the last attempt completed, its result is the recorded one; if it failed,
\* all max_retries retries were made and the recorded result is the failed
\* result of the first attempt.
C9_RecordsFirstSuccessOrFirstFailure ==
    (/\ plan.mode = "adaptive"
     /\ plan.retry_policy.enabled
     /\ vos_pc = "returned")
        => \A p \in DOMAIN outcomes :
              Len(outcomes[p]) >= 1 =>
                 /\ Len(outcomes[p]) <= AttemptsAllowed
                 /\ \A k \in 1..(Len(outcomes[p]) - 1) :
                       outcomes[p][k] = "failed"
                 /\ IF outcomes[p][Len(outcomes[p])] = "completed"
                    THEN result.primitive_results[p] =
                            PrimitiveResult("completed", Absent,
                                            Len(outcomes[p]))
                    ELSE /\ Len(outcomes[p]) = AttemptsAllowed
                         /\ result.primitive_results[p] =
                               PrimitiveResult("failed", Absent, 1)

\* one primitive failed on every attempt of the default policy, another
\* succeeded on its first retry
C9_Witness ==
    /\ plan.mode = "adaptive"
    /\ plan.retry_policy = [enabled |-> TRUE, max_retries |-> Absent]
    /\ vos_pc = "returned"
    /\ \E p, q \in DOMAIN outcomes :
          /\ outcomes[p] = <<"failed", "failed", "failed", "failed">>
          /\ outcomes[q] = <<"failed", "completed">>

\* C10: when a real_time plan has ended, execute_plan returned a completed
\* plan result in which every primitive was executed once and has its own
\* result: the failed result carrying the plan's timeout (100 ms when none
\* is given) if its execute was cancelled by the timeout, and the result its
\* execute returned otherwise.
C10_TimeoutIsolatedToPrimitive ==
    (plan.mode = "real_time" /\ ExecutePlanEnded) =>
        /\ vos_pc = "returned"
        /\ result.status = "completed"
        /\ \A p \in DOMAIN outcomes :
              /\ started[p] = 1
              /\ Len(outcomes[p]) = 1
              /\ result.primitive_results[p] =
                    IF outcomes[p][1] = "cancelled"
                    THEN [status |-> "failed",
                          timeout |-> IF plan.timeout_ms \in {Absent, 0}
                                      THEN 100 ELSE plan.timeout_ms,
                          attempt |-> 1]
                    ELSE [status |-> outcomes[p][1], timeout |-> Absent,
                          attempt |-> 1]

\* under the default timeout the first primitive timed out and its two
\* siblings ended on their own, one completed and one failed
C10_Witness ==
    /\ plan.mode = "real_time"
    /\ plan.timeout_ms = Absent
    /\ vos_pc = "returned"
    /\ Len(plan.primitives) = 3
    /\ outcomes[1] = <<"cancelled">>
    /\ outcomes[2] = <<"completed">>
    /\ outcomes[3] = <<"failed">>
    /\ result.primitive_results[1].timeout = 100

\* ------------------------------------------------------------------------
\* Properties of the VOSOrchestrator event bus
\* ------------------------------------------------------------------------

\* the loop tasks that take events from the queue
Consuming == {l \in DOMAIN loops : loops[l].pc \in {"waiting", "in_handler"}}

\* C11: at most one _process_events task consumes the event queue at any
\* time, whatever the sequence or interleaving of initialize and shutdown
\* calls, so no two tasks are inside handlers of different events together.
C11_AtMostOneLoopConsuming ==
    /\ Cardinality(Consuming) <= 1
    /\ \A l1, l2 \in DOMAIN loops :
          (loops[l1].pc = "in_handler" /\ loops[l2].pc = "in_handler")
             => loops[l1].event = loops[l2].event

\* C12: a handler that raises stops neither the dispatch of its event nor
\* the loop: every handler registered for a dispatched event was invoked, in
\* list order, a task inside a handler has invoked every handler before it,
\* and no _process_events task is ended by a handler's exception.
C12_HandlerErrorsIsolated ==
    \A l \in DOMAIN loops :
      /\ loops[l].pc /= "crashed"
      /\ loops[l].pc = "in_handler"
            => loops[l].invoked = [i \in 1..loops[l].idx |-> i]
      /\ loops[l].n_done > 0
            => loops[l].last.invoked =
                 [i \in 1..Len(HandlersOf(loops[l].last.event)) |-> i]

\* the first of two handlers of an event raised, both were invoked, and the
\* task went on to dispatch a later event
C12_Witness ==
    \E l \in DOMAIN loops :
      /\ Len(handlers["plan_completed"]) >= 2
      /\ handlers["plan_completed"][1].raises
      /\ loops[l].raised_at > 0
      /\ loops[l].n_done > loops[l].raised_at
      /\ loops[l].last.event.type = "plan_completed"
      /\ Len(loops[l].last.invoked) = Len(handlers["plan_completed"])

\* ------------------------------------------------------------------------
\* Properties of the primitives
\* ------------------------------------------------------------------------

\* C13: for each specialization, an exception raised by the narrowed
\* operation does not leave execute; the call returns a result with status
\* failed whose errors are the text of the exception.
C13_OperationErrorBecomesFailedResult ==
    /\ pr_pc /= "raised"
    /\ \A k \in DOMAIN pr_results :
          members[k].behaviour.op = "raises"
             => /\ pr_results[k].status = "failed"
                /\ pr_results[k].errors = <<members[k].op_error>>

\* the operation of a trust primitive raised and its execute returned a
\* failed result with the text of the exception
C13_Witness ==
    \E k \in DOMAIN pr_results :
      /\ members[k].type = "trust"
      /\ members[k].behaviour.op = "raises"
      /\ pr_results[k] = FailedResult(members[k].op_error)

\* the first member whose execute returns a failed result, 0 without one
FirstFailed ==
    LET F == {k \in DOMAIN members : Execute(members[k]).status = "failed"}
    IN IF F = {} THEN 0 ELSE CHOOSE k \in F : \A j \in F : k <= j

\* C14: a composed primitive executes its members in list order up to and
\* including the first that returns a failed result; it then returns failed
\* with exactly the results of the members run so far as data; without a
\* failed member it returns completed with one result per member.
C14_ComposedStopsAtFirstFailure ==
    pr_pc = "returned" =>
      LET f == FirstFailed
          n == IF f > 0 THEN f ELSE Len(members)
      IN /\ pr_results = [k \in 1..n |-> Execute(members[k])]
         /\ pr_out.data = pr_results
         /\ pr_out.status = IF f > 0 THEN "failed" ELSE "completed"

\* the second of three members failed and the third was not executed
C14_Witness ==
    /\ pr_pc = "returned"
    /\ Len(members) = 3
    /\ FirstFailed = 2
    /\ Len(pr_out.data) = 2
    /\ pr_out.status = "failed"

\* ------------------------------------------------------------------------
\* Properties of MemoryCache
\* ------------------------------------------------------------------------

\* C18: the insertion of a new key into a full cache evicts exactly one
\* entry: under lru the entry least recently read or written, under fifo the
\* entry inserted earliest; with max_size = 2, after set a, set b, get a,
\* set c an lru cache holds a and c and a fifo cache holds b and c.
C18_EvictsLeastRecentOrOldest ==
    /\ mc_last_evict.evicted_n = 1
    /\ mc_policy = "lru" => mc_last_evict.was_least_recent
    /\ mc_policy = "fifo" => mc_last_evict.was_oldest
    /\ (mc_scn = Len(Scenario) /\ mc_max_size = 2)
          => /\ mc_policy = "lru" => KeysOf(mc_cache) = {"a", "c"}
             /\ mc_policy = "fifo" => KeysOf(mc_cache) = {"b", "c"}

\* C19: whatever the calls of get, set, delete and clear made by the
\* threads, the cache never holds more than max_size entries.
C19_SizeNeverExceedsMaxSize ==
    Len(mc_cache) <= mc_max_size

\* the cache of two entries was full, and the second thread is inside a
\* set of a new key that has evicted an entry
C19_Witness ==
    /\ mc_max_size = 2
    /\ mc_lock = 2
    /\ mc_pending[2].op = "set"
    /\ mc_pending[2].key \notin KeysOf(mc_cache)
    /\ mc_last_evict.key \notin KeysOf(mc_cache) \cup {"none"}
    /\ Len(mc_cache) = 1


\* C16: in the scheduler of the Validation Orchestrator a task is handed to
\* the worker pool only when more than one task is ready and its stage is
\* parallel-eligible; a task that is the only ready one, or whose stage is
\* not parallel-eligible, runs inline on the scheduling thread.
C16_PoolOnlyForParallelWaves ==
    /\ vo_pc = "mark" =>
          /\ Len(ready_tasks) > 1
          /\ ctx_tasks[ready_tasks[ri]].stage \in parallel_stages
    /\ vo_pc = "inline" =>
          \/ Len(ready_tasks) = 1
          \/ ctx_tasks[ready_tasks[ri]].stage \notin parallel_stages


\* ------------------------------------------------------------------------
\* Properties of validate and its result cache
\* ------------------------------------------------------------------------

\* C15: every exception that leaves the pipeline execution inside validate,
\* the circular-dependency error included, reaches the caller of validate
\* as a pipeline error and as no other error type.
C15_PipelineFailureRaisesPipelineError ==
    vl_out.escaped /= "none" =>
        /\ vl_out.kind = "raised"
        /\ vl_out.error = "PipelineError"

\* a call whose task scheduling raised the circular-dependency error after
\* a task had run has ended
C15_Witness ==
    /\ vl_out.escaped = "DependencyError"
    /\ vl_out.error = "PipelineError"
    /\ vl_out.tasks > 0

\* C17: with caching enabled, a context is in the cache under a key only
\* when the validate call that made it generated that key and its pipeline
\* execution returned; and a validate call whose key has an entry in the
\* cache, not expired and not evicted, returns the context of that entry
\* and executes no task.
C17_SuccessCachedAndHitSkipsPipeline ==
    /\ \A i \in DOMAIN vl_cache :
          /\ vl_cache_enabled
          /\ NumberOf(vl_cache[i].value) <= Len(vl_ctx)
          /\ vl_ctx[NumberOf(vl_cache[i].value)] =
                [key |-> vl_cache[i].key, outcome |-> "returned"]
    /\ (vl_out.cache_enabled /\ vl_out.stored /= "None") =>
          /\ vl_out.kind = "returned"
          /\ vl_out.value = vl_out.stored
          /\ vl_out.tasks = 0

\* the third call, for the string "1", has returned the context the first
\* call, for the integer 1, stored; a raising call came between them
C17_Witness ==
    /\ Len(vl_ctx) = 3
    /\ vl_ctx[1].outcome = "returned"
    /\ vl_ctx[2] = [key |-> vl_ctx[1].key, outcome |-> "raised"]
    /\ vl_ctx[3] = [key |-> vl_ctx[1].key, outcome |-> "hit"]
    /\ vl_out.kind = "returned"
    /\ vl_out.value = RequestIds[1]
    /\ vl_out.tasks = 0


\* ------------------------------------------------------------------------
\* Properties of the rate limiter
\* ------------------------------------------------------------------------

\* the time a token takes to refill, in milliseconds
RefillInterval == TimeWindow \div MaxRequests

\* C20: a strict token-bucket limiter with max_requests = 5 and
\* time_window = 1 s admits the first five calls made at once, raises the
\* rate-limit error with a positive retry_after on a sixth call made at
\* once, and admits the call that follows a rejected one as soon as the
\* retry_after of the rejection (at most the refill interval) has passed.
C20_FiveAdmittedSixthRaisesThenRecovers ==
    rl_strict =>
        \A k \in DOMAIN rl_log :
            /\ (k <= MaxRequests /\ rl_log[k].at < RefillInterval) =>
                  rl_log[k].outcome = "True"
            /\ (k = MaxRequests + 1 /\ rl_log[k].at < RefillInterval) =>
                  /\ rl_log[k].outcome = "RateLimitExceeded"
                  /\ rl_log[k].retry_after > 0
                  /\ rl_log[k].retry_after <= RefillInterval
            /\ ( /\ k > 1
                 /\ rl_log[k - 1].outcome = "RateLimitExceeded"
                 /\ rl_log[k].at >= rl_log[k - 1].at + rl_log[k - 1].retry_after
               ) => rl_log[k].outcome = "True"

\* five calls admitted and a sixth rejected within the refill interval, the
\* sixth after some refill, and a seventh admitted once retry_after passed
C20_Witness ==
    /\ rl_strict
    /\ Len(rl_log) = MaxRequests + 2
    /\ \A k \in 1..MaxRequests : rl_log[k].outcome = "True"
    /\ rl_log[MaxRequests + 1].at < RefillInterval
    /\ rl_log[MaxRequests + 1].at > rl_log[1].at
    /\ rl_log[MaxRequests + 1].outcome = "RateLimitExceeded"
    /\ rl_log[MaxRequests + 2].at =
          rl_log[MaxRequests + 1].at + rl_log[MaxRequests + 1].retry_after
    /\ rl_log[MaxRequests + 2].outcome = "True"


\* ------------------------------------------------------------------------
\* Further properties of the ValidationOrchestrator scheduler
\* ------------------------------------------------------------------------

\* C27: when _execute_tasks returns without raising, every task of the
\* context has a terminal status (completed, failed or skipped); none is
\* left pending or running.
C27_ReturnLeavesNoTaskUnfinished ==
    vo_pc = "returned" =>
        \A t \in DOMAIN ctx_tasks :
            ctx_tasks[t].status \in {"completed", "failed", "skipped"}


\* ------------------------------------------------------------------------
\* Further properties of the VOSOrchestrator event bus
\* ------------------------------------------------------------------------

\* event k is on the queue, put there while _initialized was set
QueuedWhileInitialized(k) ==
    \E i \in DOMAIN ev_queue : ev_queue[i].id = k /\ ev_queue[i].initialized

\* event k is on the queue or a loop task is inside its handlers
Undispatched(k) ==
    \/ \E i \in DOMAIN ev_queue : ev_queue[i].id = k
    \/ \E l \in DOMAIN loops : loops[l].event.id = k

\* C28: every event put on the event queue while the orchestrator is
\* initialized is eventually dispatched to the handlers of its type, the
\* events emitted shortly before shutdown included, and events are
\* dispatched in the order of their emission: no task is inside the
\* handlers of an event while another task is inside those of another.
C28_EmittedEventsEventuallyDispatched ==
    /\ \A k \in 1..MaxEvents :
          QueuedWhileInitialized(k) ~> ~Undispatched(k)
    /\ [](\A l1, l2 \in DOMAIN loops :
             (loops[l1].pc = "in_handler" /\ loops[l2].pc = "in_handler")
                => loops[l1].event = loops[l2].event)


\* ------------------------------------------------------------------------
\* Properties of the shared-store rate limiter
\* ------------------------------------------------------------------------

\* the calls admitted with a request time in the set of times T
RECURSIVE AdmittedIn(_)
AdmittedIn(T) ==
    IF T = {} THEN 0
    ELSE LET t == CHOOSE u \in T : TRUE
         IN rrl.admitted[t] + AdmittedIn(T \ {t})

\* C21: with the sliding-window and the fixed-window limiter of the shared
\* store, the processes calling check_and_consume on one key are together
\* never granted more than max_requests admissions within one time window:
\* any WindowTicks consecutive ticks under the sliding window, each window
\* id under the fixed window.
C21_SharedWindowNeverOverAdmits ==
    /\ rrl.algorithm = "sliding_window" =>
          \A t \in 0..MaxTicks :
              AdmittedIn({u \in 0..MaxTicks : u > t - WindowTicks /\ u <= t})
                 <= rrl.max_requests
    /\ rrl.algorithm = "fixed_window" =>
          \A w \in 0..WindowId(MaxTicks) :
              AdmittedIn({u \in 0..MaxTicks : WindowId(u) = w})
                 <= rrl.max_requests


\* C22: for a function wrapped by rate_limit at most one limiter is ever
\* created per key, also when the first calls for the key come from several
\* threads together, so all calls with one key consume from one limiter.
C22_OneLimiterPerKey ==
    \A k \in LimiterKeys :
        /\ deco.created[k] <= 1
        /\ Cardinality(deco.consumed[k]) <= 1


\* ------------------------------------------------------------------------
\* Properties of the trust framework
\* ------------------------------------------------------------------------

\* the general badges among those assigned
GeneralAssigned ==
    SelectSeq(badge.badges, LAMBDA b : b /= "domain_expert")

\* the general badge types whose thresholds the input meets
TiersMet == {i \in DOMAIN GeneralBadges :
                MeetsRequirements(GeneralBadges[i], badge.in)}

\* C23: badge assignment never grants two of platinum, gold, silver and
\* bronze; when the thresholds of at least one tier are all met it grants
\* exactly one general badge, the highest such tier; score 72 with 2
\* domains, 60 test cases and accuracy, consistency and reliability present
\* yields silver and no other general badge.
C23_ExactlyHighestGeneralBadge ==
    badge.badges /= "None" =>
        /\ Len(GeneralAssigned) <= 1
        /\ TiersMet /= {} =>
              GeneralAssigned =
                 <<GeneralBadges[CHOOSE i \in TiersMet :
                                    \A j \in TiersMet : i <= j]>>
        /\ ( /\ badge.in.overall_score = 72
             /\ badge.in.domains = 2
             /\ badge.in.num_test_cases = 60
             /\ {"accuracy", "consistency", "reliability"}
                   \subseteq badge.in.metrics
           ) => GeneralAssigned = <<"silver">>

\* silver was granted for the example although bronze is met as well, next
\* to a domain_expert badge
C23_Witness ==
    /\ badge.badges /= "None"
    /\ badge.badges = <<"silver", "domain_expert", "domain_expert">>
    /\ badge.in.overall_score = 72
    /\ badge.in.domains = 2
    /\ badge.in.num_test_cases = 60
    /\ MeetsRequirements("bronze", badge.in)


\* the elements of a sequence
ResultsOf(seq) == {seq[i] : i \in DOMAIN seq}

\* C24: when validate_agent on an existing session fails, the session stays
\* registered with status failed and an end time, the results accumulated
\* before the failure are retained on it, and a validation error is raised.
C24_FailedSessionRetainsResults ==
    (tf.pc = "raised") =>
        /\ tf.session.status = "failed"
        /\ tf.session.end_time /= Absent
        /\ tf.error = "ValidationError"
        /\ ResultsOf(tf.all_results) \subseteq ResultsOf(tf.session.results)


\* ------------------------------------------------------------------------
\* Properties of the synthetic-data connector
\* ------------------------------------------------------------------------

\* C25: generate_and_wait returns normally only with a completed response;
\* a job still pending or running once max_wait has elapsed is cancelled and
\* a timeout error raised; a failed status raises a generation-failed error;
\* no poll is made later than max_wait plus one poll interval.
C25_ReturnsOnlyCompleted ==
    /\ gen.outcome = "returned" => gen.status = "completed"
    /\ gen.outcome = "timeout" =>
          /\ gen.status \in {"pending", "running"}
          /\ gen.now - gen.start_time > gen.max_wait
          /\ gen.job_id => gen.cancelled
    /\ (gen.pc = "done" /\ gen.status = "failed") => gen.outcome = "failed"
    /\ gen.last_poll <= gen.max_wait + gen.poll_interval


\* C26: batch_generate never has more than max_concurrent generate_and_wait
\* calls in progress; it returns only after every request has run, with
\* exactly one response per request in request order, the response of a
\* request being failed exactly when its generation raised.
C26_BoundedConcurrencyOrderedResponses ==
    /\ Cardinality(InProgress(batch)) <= batch.max_concurrent
    /\ batch.returned =>
          /\ Len(batch.responses) = batch.n
          /\ \A i \in Requests(batch) :
                /\ batch.pc[i] = "done"
                /\ batch.responses[i].request_id = i
                /\ batch.raised[i] => batch.responses[i].status = "failed"
                /\ ~batch.raised[i] => batch.responses[i].status /= "failed"

\* three requests were run two at a time; the first and the last raised and
\* the second did not
C26_Witness ==
    /\ batch.returned
    /\ batch.n = 3
    /\ batch.max_concurrent = 2
    /\ batch.peak = 2
    /\ batch.raised = <<TRUE, FALSE, TRUE>>
    /\ batch.responses[2].status = "completed"


\* ------------------------------------------------------------------------
\* Properties of the domain registry
\* ------------------------------------------------------------------------

\* C29: every instance in the instance cache is an instance of the class
\* currently registered for its domain type, and get never returns an
\* instance of a replaced or unregistered class.
C29_CachedInstancesOfRegisteredClass ==
    /\ \A t \in DomainTypes :
          reg.instances[t] /= "None" => reg.instances[t] = reg.domains[t]
    /\ (reg.asked /= "None" /\ reg.returned /= "None") =>
          reg.returned = reg.domains[reg.asked]


\* ------------------------------------------------------------------------
\* Properties of the hybrid cache
\* ------------------------------------------------------------------------

\* C30: in hybrid mode get never returns a value more than ttl seconds after
\* the set(key, value, ttl) that stored it, whatever evictions, clears and
\* reads of the memory cache happened in between.
C30_HybridGetHonoursTtl ==
    hyb.got /= 0 => hyb.now - hyb.sets[hyb.got].at <= hyb.sets[hyb.got].ttl

====
